---- MODULE Spec2Model ----
(***************************************************************************)
(* Model of the Docker Registry v2 client (DockerRegistryImpl): existence  *)
(* probes, layer and image push, image info, image pull and image delete.  *)
(*                                                                         *)
(* Strings are sequences of tokens and string concatenation is \o, so that *)
(* "sha256:" + digestString and digestString are different values.  File   *)
(* contents are token sequences too; Len is the size in bytes.             *)
(*                                                                         *)
(* One client runs one registry operation at a time (the code is blocking  *)
(* and single threaded).  Every HTTP exchange is one step: the registry's  *)
(* answer is chosen by the environment.                                    *)
(***************************************************************************)
EXTENDS Integers, Sequences, FiniteSets, TLC

\* ------------------------------------------------------------------ bounds
\* Staging directories that may exist at once (caps the directory ids).
MaxTempDirs == 1

\* Longest name component checked.
MaxPartLen == 3

\* ------------------------------------------------------------------ inputs
RepoNames == {"acme/app"}
Tags == {"v1"}
LayerIds == {"a", "b"}

\* Contents of the layer payloads of the corpus.
LayerContents == {<<"x">>, <<"y">>}

\* sha256 and hex.EncodeToString over the corpus: injective, as sha256 is.
Sha256Hex(data) ==
    CASE data = <<"x">> -> <<"2d71">>
      [] data = <<"y">> -> <<"a1fc">>
      [] data = <<>>    -> <<"e3b0">>
      [] OTHER          -> <<"ffff">>

\* Files the caller owns (paths given to PushLayer directly).
UserFiles == ("x.tar" :> <<"x">>) @@ ("y.tar" :> <<"y">>)
UserPaths == {"x.tar", "y.tar", "missing.tar"}

\* ------------------------------------------------------------------ errors
Nil == [kind |-> "nil", status |-> 0, msg |-> <<>>]

\* response.Status of net/http: the status line text.
StatusLine(code) ==
    CASE code = 200 -> "200 OK"
      [] code = 201 -> "201 Created"
      [] code = 202 -> "202 Accepted"
      [] code = 401 -> "401 Unauthorized"
      [] code = 404 -> "404 Not Found"
      [] code = 500 -> "500 Internal Server Error"
      [] OTHER      -> "unknown"

\* utils.GenerateError: nil for a success status, else an error that carries
\* the status code and the message it was given.
GenerateError(httpStatusCode, msg) ==
    IF httpStatusCode >= 300
    THEN [kind |-> "http", status |-> httpStatusCode, msg |-> msg]
    ELSE Nil

ConstructServerError(msg) == [kind |-> "server", status |-> 0, msg |-> msg]

\* The error value of a failed send (err != nil from the transport).
TransportError == [kind |-> "transport", status |-> 0, msg |-> <<"send failed">>]

\* The error value of a failed file system call.
IOError(msg) == [kind |-> "io", status |-> 0, msg |-> msg]

\* ------------------------------------------------------------------ HTTP
\* A 2xx status.
Success(status) == status \in 200..299

\* A response as the client sees it.  failed: the send returned err != nil.
Response(code, locations, body) ==
    [failed |-> FALSE, StatusCode |-> code, Location |-> locations, Body |-> body]
SendFailure ==
    [failed |-> TRUE, StatusCode |-> 0, Location |-> <<>>, Body |-> <<>>]

ErrorBody == <<"{\"errors\": [...]}">>

\* The Location a registry hands out for an upload session of a repository.
UploadLocation(repo) ==
    <<"http://registry:5000/v2/", repo, "/blobs/uploads/", "uuid", "?_state=s">>

HeadResponses ==
    {Response(200, <<>>, <<>>), Response(404, <<>>, <<>>),
     Response(401, <<>>, <<>>), Response(500, <<>>, <<>>), SendFailure}

PostResponses(repo) ==
    {Response(202, <<>>, <<>>),
     Response(202, <<UploadLocation(repo)>>, <<>>),
     Response(202, <<UploadLocation(repo), UploadLocation(repo)>>, <<>>),
     Response(500, <<>>, ErrorBody), SendFailure}

PutResponses ==
    {Response(201, <<>>, <<>>), Response(500, <<>>, ErrorBody), SendFailure}

\* rest.RestContext as created by OpenDockerRegistryConnection.
RestContext ==
    [scheme |-> "http", hostname |-> "registry", port |-> 5000,
     userId |-> "user", password |-> "pass"]

\* "Basic " + base64(userid:password)
AuthHeaderValue == <<"Basic ", "base64(", RestContext.userId, ":", RestContext.password, ")">>

VARIABLES
    blobs,          \* registry: set of [repo, digest, data], the blobs it stores
    manifests,      \* registry: set of [repo, tag, body], the manifests it stores
    tempDirs,       \* file system: staging directory id -> [dirs, files]
    staleDirs,      \* number of staging directories left by earlier calls
    pc,             \* position of the client in the running operation
    op,             \* the operation the caller invoked ("none" before any)
    repoName, tag,  \* its arguments
    imageFile,      \* PushImage: the archive at imageFilePath
    tempDirPath,    \* PushImage, GetImage: id of its staging directory, 0 for none
    imageDigest,    \* PushImage: image id read from the repositories index
    layerFilenames, \* PushImage: names listed in the staging directory
    layerIdx,       \* layer loops: number of elements already iterated
    layerDigests,   \* PushImage: digests returned by the pushes so far
    layerFilePath,  \* PushLayer: the file to push
    digestString,   \* PushLayer: hex of the locally computed digest
    location,       \* PushLayer: upload session location
    request,        \* PushLayer: the http.Request last constructed
    resp,           \* GetImageInfo, GetImage, DeleteImage: the last GET response
    layerAr,        \* the layer descriptors parseManifest returned
    tarFile,        \* GetImage: the destination file at filepath
    reqLog,         \* requests sent during the current operation, in order
    stdout,         \* lines printed during the current operation
    part,           \* NamePartConformsToDockerRules: the name component to check
    buildOutputStr, \* ParseBuildCommandOutput: the build output, "\n" between lines
    restResponse,   \* ParseBuildRESTOutput: the engine's response, one JSON text per line
    lines,          \* ParseBuildCommandOutput: strings.Split(buildOutputStr, "\n")
    state,          \* ParseBuildCommandOutput: 1 looking for a step, 2 for step parts
    step,           \* ParseBuildCommandOutput: index in output.Steps of *step, 0 for nil
    lineNo,         \* ParseBuildCommandOutput: index of the current line, from 0
    output,         \* the *DockerBuildOutput the parse works on and returns
    registrySet,    \* DockerServices: whether dockerSvcs.Registry is not nil
    buildDirs,      \* BuildDockerfile: the temporary directories of the call that exist
    deferred,       \* BuildDockerfile: the directories its deferred calls remove
    savedFiles,     \* SaveImage: the temporary files its calls have left on disk
    calls,          \* DockerServices: calls made on the engine and the registry, in order
    result          \* what the last finished operation returned

registryVars == <<blobs, manifests>>
fsVars == <<tempDirs, staleDirs>>
callVars == <<op, repoName, tag, imageFile>>
imageVars == <<tempDirPath, imageDigest, layerFilenames, layerIdx, layerDigests>>
layerVars == <<layerFilePath, digestString, location, request>>
pullVars == <<resp, layerAr, tarFile>>
parseVars == <<buildOutputStr, restResponse, lines, state, step, lineNo, output>>
buildVars == <<registrySet, buildDirs, deferred, savedFiles, calls>>
svcVars == <<part, parseVars, buildVars>>
vars == <<blobs, manifests, tempDirs, staleDirs, pc, op, repoName, tag, imageFile,
          tempDirPath, imageDigest, layerFilenames, layerIdx, layerDigests,
          layerFilePath, digestString, location, request, resp, layerAr, tarFile,
          reqLog, stdout, part, buildOutputStr, restResponse, lines, state, step,
          lineNo, output, registrySet, buildDirs, deferred, savedFiles, calls, result>>

\* ------------------------------------------------------------------ files
NoPath == [dir |-> 0, name |-> <<>>]
UserPath(p) == [dir |-> 0, name |-> <<p>>]
EmptyDir == [dirs |-> {}, files |-> <<>>]

FileExists(path) ==
    IF path.dir = 0
    THEN Len(path.name) = 1 /\ path.name[1] \in DOMAIN UserFiles
    ELSE path.dir \in DOMAIN tempDirs /\ path.name \in DOMAIN tempDirs[path.dir].files

ReadFile(path) ==
    IF path.dir = 0 THEN UserFiles[path.name[1]] ELSE tempDirs[path.dir].files[path.name]

\* The headers PushLayer sets on its upload requests.
UploadHeaders(fileSize) ==
    [ContentLength |-> fileSize, ContentRange |-> <<0, fileSize - 1>>,
     ContentType |-> "application/octet-stream", Authorization |-> AuthHeaderValue]

\* A response to a GET: as Response, with the values of its
\* Docker-Content-Digest header.
GetResponse(code, contentDigest, body) ==
    [failed |-> FALSE, StatusCode |-> code, Location |-> <<>>, Body |-> body,
     DockerContentDigest |-> contentDigest]
GetFailure ==
    [failed |-> TRUE, StatusCode |-> 0, Location |-> <<>>, Body |-> <<>>,
     DockerContentDigest |-> <<>>]
NoResponse == GetResponse(0, <<>>, <<>>)

\* The file at the filepath of GetImage: the tar entries written to it, and
\* whether the tar writer was closed (the end-of-archive marker follows them).
NoFile == [exists |-> FALSE, entries |-> <<>>, closed |-> FALSE]

NoRequest == [method |-> "", url |-> <<>>, body |-> <<>>, headers |-> UploadHeaders(0)]
NoResult == [op |-> "none", value |-> <<>>, found |-> FALSE, err |-> Nil]

\* A sent request with the status it was answered with (0: the send failed).
\* present: whether the registry held the addressed blob or manifest.
\* nLocation: the number of Location header values of the response.
Sent(method, url, body, response, present) ==
    [method |-> method, url |-> url, body |-> body, status |-> response.StatusCode,
     nLocation |-> Len(response.Location), respBody |-> response.Body,
     present |-> present]

\* ------------------------------------------------------------------ registry
\* What a registry that stores blobs under their digest holds at a blob path.
BlobPresent(repo, digest) ==
    \E b \in blobs : b.repo = repo /\ b.digest = digest

ManifestPresent(repo, t) ==
    \E m \in manifests : m.repo = repo /\ m.tag = t

\* The registry reads the repository and the digest out of the blob path
\* v2/<name>/blobs/<digest>.
BlobAt(uri) == BlobPresent(uri[2], SubSeq(uri, 4, Len(uri)))

ManifestAt(uri) == ManifestPresent(uri[2], uri[4])

\* The registry completes an upload: it reads the digest parameter of
\* <location>&digest=<digest> and stores the body under it.
DigestParam(url) ==
    LET i == CHOOSE k \in 1..Len(url) : url[k] = "&digest=" IN SubSeq(url, i + 1, Len(url))

StoreBlob(url, body) ==
    blobs \cup {[repo |-> url[2], digest |-> DigestParam(url), data |-> body]}

\* The client after OpenDockerRegistryConnection, before any call.
InitRegistry ==
    /\ blobs = {}
    /\ manifests = {}
    /\ tempDirs = <<>>
    /\ staleDirs = 0
    /\ pc = "idle"
    /\ op = "none"
    /\ repoName = ""
    /\ tag = ""
    /\ imageFile = [exists |-> FALSE, entries |-> <<>>]
    /\ tempDirPath = 0
    /\ imageDigest = ""
    /\ layerFilenames = <<>>
    /\ layerIdx = 0
    /\ layerDigests = <<>>
    /\ layerFilePath = NoPath
    /\ digestString = <<>>
    /\ location = <<>>
    /\ request = NoRequest
    /\ resp = NoResponse
    /\ layerAr = <<>>
    /\ tarFile = NoFile
    /\ reqLog = <<>>
    /\ stdout = <<>>
    /\ result = NoResult

\* No name component is held.
InitName == part = <<>>

\* A nil *DockerBuildOutput.
NilOutput == [isNil |-> TRUE, ErrorMessage |-> <<>>, FinalDockerImageId |-> <<>>, Steps |-> <<>>]

\* No parse is running.
InitParse ==
    /\ buildOutputStr = <<>>
    /\ restResponse = <<>>
    /\ lines = <<>>
    /\ state = 1
    /\ step = 0
    /\ lineNo = 0
    /\ output = NilOutput

\* NewDockerServices: no call made yet.
InitBuild ==
    /\ registrySet = FALSE
    /\ buildDirs = {}
    /\ deferred = <<>>
    /\ savedFiles = 0
    /\ calls = <<>>

Init ==
    /\ InitRegistry
    /\ InitName
    /\ InitParse
    /\ InitBuild

\* The caller invokes an operation.
Begin(o, r, t) ==
    /\ pc = "idle"
    /\ pc' = o
    /\ op' = o
    /\ repoName' = r
    /\ tag' = t
    /\ UNCHANGED <<svcVars, pullVars, registryVars, fsVars, tempDirPath, imageDigest, layerFilenames,
                   layerIdx, location, request, reqLog, stdout, result>>

\* The running operation returns to the caller.
Returns(value, found, err) ==
    /\ pc' = "done"
    /\ result' = [op |-> op, value |-> value, found |-> found, err |-> err]

\* The caller moves on: the locals of the finished call are gone.  A staging
\* directory the call left behind stays on disk; nothing reads it again, so
\* only the number of such directories is kept.
Return ==
    /\ pc = "done"
    /\ pc' = "idle"
    /\ op' = "none"
    /\ repoName' = ""
    /\ tag' = ""
    /\ imageFile' = [exists |-> FALSE, entries |-> <<>>]
    /\ staleDirs' = staleDirs + Cardinality(DOMAIN tempDirs)
    /\ tempDirs' = <<>>
    /\ tempDirPath' = 0
    /\ imageDigest' = ""
    /\ layerFilenames' = <<>>
    /\ layerIdx' = 0
    /\ layerDigests' = <<>>
    /\ layerFilePath' = NoPath
    /\ digestString' = <<>>
    /\ location' = <<>>
    /\ request' = NoRequest
    /\ resp' = NoResponse
    /\ layerAr' = <<>>
    /\ tarFile' = NoFile
    /\ reqLog' = <<>>
    /\ stdout' = <<>>
    /\ result' = NoResult
    /\ UNCHANGED <<svcVars, registryVars>>

\* ------------------------------------------------------------------ ImageExists
ImageExistsUri(r, t) == <<"v2/", r, "/manifests/", t>>

\* ImageExists without the special case for 404.
ImageExistsResult_No404(response) ==
    IF response.failed THEN [found |-> FALSE, err |-> TransportError]
    ELSE LET err == GenerateError(response.StatusCode,
                        <<StatusLine(response.StatusCode), "; while checking if image exists">>)
         IN  IF err # Nil THEN [found |-> FALSE, err |-> err]
             ELSE [found |-> TRUE, err |-> Nil]

\* ImageExists, from the response to its HEAD request.
ImageExistsResult(response) ==
    IF response.failed THEN [found |-> FALSE, err |-> TransportError]
    ELSE IF response.StatusCode = 404 THEN [found |-> FALSE, err |-> Nil]
    ELSE LET err == GenerateError(response.StatusCode,
                        <<StatusLine(response.StatusCode), "; while checking if image exists">>)
         IN  IF err # Nil THEN [found |-> FALSE, err |-> err]
             ELSE [found |-> TRUE, err |-> Nil]

Call_ImageExists ==
    \E r \in RepoNames, t \in Tags :
        /\ Begin("ImageExists", r, t)
        /\ UNCHANGED <<imageFile, layerDigests, layerFilePath, digestString>>

ImageExists ==
    /\ pc = "ImageExists"
    /\ \E response \in HeadResponses :
        LET uri == ImageExistsUri(repoName, tag)
            res == ImageExistsResult(response)
        IN  /\ reqLog' = Append(reqLog, Sent("HEAD", uri, <<>>, response, ManifestAt(uri)))
            /\ Returns(<<>>, res.found, res.err)
    /\ UNCHANGED <<svcVars, pullVars, registryVars, fsVars, callVars, imageVars, layerVars, stdout>>

\* ------------------------------------------------------------------ LayerExistsInRepo
LayerExistsUri(r, digest) == <<"v2/", r, "/blobs/">> \o digest

\* LayerExistsInRepo that never reports an existing layer.
LayerExistsInRepo_NeverFound(response) ==
    IF response.failed THEN [found |-> FALSE, err |-> TransportError]
    ELSE IF response.StatusCode = 404 THEN [found |-> FALSE, err |-> Nil]
    ELSE [found |-> FALSE,
          err |-> GenerateError(response.StatusCode,
                      <<StatusLine(response.StatusCode), "; while checking if layer exists">>)]

\* LayerExistsInRepo, from the response to its HEAD request.
LayerExistsInRepo(response) ==
    IF response.failed THEN [found |-> FALSE, err |-> TransportError]
    ELSE IF response.StatusCode = 404 THEN [found |-> FALSE, err |-> Nil]
    ELSE LET err == GenerateError(response.StatusCode,
                        <<StatusLine(response.StatusCode), "; while checking if layer exists">>)
         IN  IF err # Nil THEN [found |-> FALSE, err |-> err]
             ELSE [found |-> TRUE, err |-> Nil]

\* Digest arguments a caller passes to LayerExistsInRepo.
DigestArgs ==
    {Sha256Hex(c) : c \in LayerContents} \cup {<<"sha256:">> \o Sha256Hex(c) : c \in LayerContents}

Call_LayerExistsInRepo ==
    \E r \in RepoNames, d \in DigestArgs :
        /\ Begin("LayerExistsInRepo", r, "")
        /\ digestString' = d
        /\ UNCHANGED <<imageFile, layerDigests, layerFilePath>>

LayerExists ==
    /\ pc = "LayerExistsInRepo"
    /\ \E response \in HeadResponses :
        LET uri == LayerExistsUri(repoName, digestString)
            res == LayerExistsInRepo(response)
        IN  /\ reqLog' = Append(reqLog, Sent("HEAD", uri, <<>>, response, BlobAt(uri)))
            /\ Returns(<<>>, res.found, res.err)
    /\ UNCHANGED <<svcVars, pullVars, registryVars, fsVars, callVars, imageVars, layerVars, stdout>>

\* ------------------------------------------------------------------ PushLayer
\* A layer loop that goes on after a failed push.
PushLayerReturns_IgnoreError(digest, err) ==
    IF op = "PushLayer"
    THEN /\ Returns(digest, FALSE, err)
         /\ UNCHANGED layerDigests
    ELSE /\ pc' = "PushImage_NextLayer"
         /\ layerDigests' = Append(layerDigests, digest)
         /\ UNCHANGED result

\* PushLayer returns (digest, err) to its caller: to the user, or to the
\* layer loop of PushImage, which returns the error or appends the digest.
PushLayerReturns(digest, err) ==
    IF op = "PushLayer"
    THEN /\ Returns(digest, FALSE, err)
         /\ UNCHANGED layerDigests
    ELSE IF err # Nil
    THEN /\ Returns(<<>>, FALSE, err)
         /\ UNCHANGED layerDigests
    ELSE /\ pc' = "PushImage_NextLayer"
         /\ layerDigests' = Append(layerDigests, digest)
         /\ UNCHANGED result

Call_PushLayer ==
    \E p \in UserPaths, r \in RepoNames :
        /\ Begin("PushLayer", r, "")
        /\ layerFilePath' = UserPath(p)
        /\ UNCHANGED <<imageFile, layerDigests, digestString>>

\* Compute layer signature.
PushLayer_ComputeDigest ==
    /\ pc = "PushLayer"
    /\ IF ~FileExists(layerFilePath)
       THEN /\ PushLayerReturns(<<>>, IOError(<<"open ">> \o layerFilePath.name))
            /\ UNCHANGED <<digestString, stdout>>
       ELSE /\ digestString' = Sha256Hex(ReadFile(layerFilePath))
            /\ stdout' = Append(stdout, <<"Computed digest: ">> \o digestString')
            /\ pc' = "PushLayer_CheckExists"
            /\ UNCHANGED <<result, layerDigests>>
    /\ UNCHANGED <<svcVars, pullVars, registryVars, fsVars, callVars, tempDirPath, imageDigest,
                   layerFilenames, layerIdx, layerFilePath, location, request,
                   reqLog>>

\* Check if layer already exists in repo.
PushLayer_CheckExists ==
    /\ pc = "PushLayer_CheckExists"
    /\ \E response \in HeadResponses :
        LET uri == LayerExistsUri(repoName, digestString)
            res == LayerExistsInRepo(response)
        IN  /\ reqLog' = Append(reqLog, Sent("HEAD", uri, <<>>, response, BlobAt(uri)))
            /\ IF res.err # Nil THEN PushLayerReturns(digestString, res.err)
               ELSE IF res.found THEN PushLayerReturns(digestString, Nil)
               ELSE /\ pc' = "PushLayer_StartUpload"
                    /\ UNCHANGED <<result, layerDigests>>
    /\ UNCHANGED <<svcVars, pullVars, registryVars, fsVars, callVars, tempDirPath, imageDigest,
                   layerFilenames, layerIdx, layerVars, stdout>>

UploadsUri(r) == <<"v2/", r, "/blobs/uploads/">>

\* An upload-initiate that takes the first Location value of several.
StartUploadResult_FirstLocation(response) ==
    IF response.failed THEN [location |-> <<>>, err |-> TransportError]
    ELSE LET err == GenerateError(response.StatusCode,
                        <<StatusLine(response.StatusCode), "; while starting layer upload">>)
             locations == response.Location
         IN  IF err # Nil THEN [location |-> <<>>, err |-> err]
             ELSE IF locations = <<>>
                  THEN [location |-> <<>>, err |-> ConstructServerError(<<"No Location header">>)]
             ELSE [location |-> locations[1], err |-> Nil]

\* The outcome of the upload-initiate exchange: the session location or an error.
StartUploadResult(response) ==
    IF response.failed THEN [location |-> <<>>, err |-> TransportError]
    ELSE LET err == GenerateError(response.StatusCode,
                        <<StatusLine(response.StatusCode), "; while starting layer upload">>)
             locations == response.Location
         IN  IF err # Nil THEN [location |-> <<>>, err |-> err]
             ELSE IF locations = <<>>
                  THEN [location |-> <<>>, err |-> ConstructServerError(<<"No Location header">>)]
             ELSE IF Len(locations) # 1
                  THEN [location |-> <<>>,
                        err |-> ConstructServerError(<<"Unexpected Location header">>)]
             ELSE [location |-> locations[1], err |-> Nil]

\* Get Location header.
PushLayer_StartUpload ==
    /\ pc = "PushLayer_StartUpload"
    /\ \E response \in PostResponses(repoName) :
        LET uri == UploadsUri(repoName)
            res == StartUploadResult(response)
        IN  /\ reqLog' = Append(reqLog, Sent("POST", uri, <<>>, response, FALSE))
            /\ IF res.err # Nil
               THEN /\ PushLayerReturns(digestString, res.err)
                    /\ UNCHANGED location
               ELSE /\ location' = res.location
                    /\ pc' = "PushLayer_Transfer"
                    /\ UNCHANGED <<result, layerDigests>>
    /\ UNCHANGED <<svcVars, pullVars, registryVars, fsVars, callVars, tempDirPath, imageDigest,
                   layerFilenames, layerIdx, layerFilePath, digestString, request,
                   stdout>>

\* The PATCH request that carries the layer.
TransferRequest(url, data) ==
    [method |-> "PATCH", url |-> url, body |-> data, headers |-> UploadHeaders(Len(data))]

\* Requests PushLayer submits at its transfer step.  The source constructs
\* the PATCH request and never submits it: the Do call is commented out.
TransferSends(req) == <<>>

\* Open the layer file and construct the transfer request.
PushLayer_Transfer ==
    /\ pc = "PushLayer_Transfer"
    /\ request' = TransferRequest(location, ReadFile(layerFilePath))
    /\ reqLog' = reqLog \o TransferSends(request')
    /\ pc' = "PushLayer_Finalize"
    /\ UNCHANGED <<svcVars, pullVars, registryVars, fsVars, callVars, imageVars, layerFilePath,
                   digestString, location, stdout, result>>

\* url = location + "&digest=sha256:" + digestString
FinalizeUrl(loc, digest) == loc \o <<"&digest=", "sha256:">> \o digest

FinalizeRequest(loc, digest, data) ==
    [method |-> "PUT", url |-> FinalizeUrl(loc, digest), body |-> data,
     headers |-> UploadHeaders(Len(data))]

\* The error PushLayer returns for the response to its finalize request.
FinalizeError(response) ==
    IF response.failed THEN TransportError
    ELSE GenerateError(response.StatusCode, <<StatusLine(response.StatusCode)>>)

\* What PushLayer prints for a finalize response: the body of a refused
\* request when it could be read, the read error otherwise.
FinalizePrints(response, readOk) ==
    IF response.failed \/ FinalizeError(response) = Nil THEN <<>>
    ELSE IF readOk THEN <<response.Body>> ELSE <<<<"read error">>>>

\* Signal completion of upload.
PushLayer_Finalize ==
    /\ pc = "PushLayer_Finalize"
    /\ \E response \in PutResponses, readOk \in BOOLEAN :
        LET req == FinalizeRequest(location, digestString, ReadFile(layerFilePath))
            err == FinalizeError(response)
        IN  /\ readOk \/ (~response.failed /\ err # Nil)
            /\ request' = req
            /\ reqLog' = Append(reqLog, Sent("PUT", req.url, req.body, response, FALSE))
            /\ blobs' = IF ~response.failed /\ err = Nil
                        THEN StoreBlob(req.url, req.body) ELSE blobs
            /\ stdout' = stdout \o FinalizePrints(response, readOk)
            /\ PushLayerReturns(digestString, err)
    /\ UNCHANGED <<svcVars, pullVars, manifests, fsVars, callVars, tempDirPath, imageDigest,
                   layerFilenames, layerIdx, layerFilePath, digestString, location>>

\* ------------------------------------------------------------------ archives
\* A tar entry: header.Name as tokens (a directory ends in "/") and its data.
Entry(name, data) == [name |-> name, data |-> data]

\* The repositories index documents of the corpus (the JSON text as one token).
IndexOk          == <<"{\"realm4/repo1\":{\"myimage2\":\"d2cf21\"}}">>
IndexNoRepo      == <<"{}">>
IndexTwoRepos    == <<"{\"r1\":{\"t\":\"d2cf21\"},\"r2\":{\"t\":\"d2cf21\"}}">>
IndexNoTag       == <<"{\"r1\":{}}">>
IndexTwoTags     == <<"{\"r1\":{\"t1\":\"d2cf21\",\"t2\":\"d2cf21\"}}">>
IndexNotMap      == <<"[]">>
IndexRepoNotMap  == <<"{\"r1\":\"d2cf21\"}">>
IndexIdNotString == <<"{\"r1\":{\"t\":5}}">>
IndexNotJson     == <<"{\"r1\":">>
IndexDocs ==
    {IndexOk, IndexNoRepo, IndexTwoRepos, IndexNoTag, IndexTwoTags, IndexNotMap,
     IndexRepoNotMap, IndexIdNotString, IndexNotJson}

\* Decoded JSON values.
JString(v) == [t |-> "string", s |-> v, m |-> <<>>]
JOther(t)  == [t |-> t, s |-> "", m |-> <<>>]
JMap(f)    == [t |-> "map", s |-> "", m |-> f]

\* json.Unmarshal on the documents of the corpus.
JsonUnmarshal(bytes) ==
    CASE bytes = IndexOk ->
            [ok |-> TRUE, obj |-> JMap("realm4/repo1" :> JMap("myimage2" :> JString("d2cf21")))]
      [] bytes = IndexNoRepo -> [ok |-> TRUE, obj |-> JMap(<<>>)]
      [] bytes = IndexTwoRepos ->
            [ok |-> TRUE, obj |-> JMap(("r1" :> JMap("t" :> JString("d2cf21")))
                                       @@ ("r2" :> JMap("t" :> JString("d2cf21"))))]
      [] bytes = IndexNoTag -> [ok |-> TRUE, obj |-> JMap("r1" :> JMap(<<>>))]
      [] bytes = IndexTwoTags ->
            [ok |-> TRUE, obj |-> JMap("r1" :> JMap(("t1" :> JString("d2cf21"))
                                                    @@ ("t2" :> JString("d2cf21"))))]
      [] bytes = IndexNotMap -> [ok |-> TRUE, obj |-> JOther("array")]
      [] bytes = IndexRepoNotMap -> [ok |-> TRUE, obj |-> JMap("r1" :> JString("d2cf21"))]
      [] bytes = IndexIdNotString ->
            [ok |-> TRUE, obj |-> JMap("r1" :> JMap("t" :> JOther("number")))]
      [] OTHER -> [ok |-> FALSE, obj |-> JOther("null")]

\* How the archive holds one layer: its payload, an empty payload, or a
\* directory with no layer.tar entry.
LayerShapes == {"full", "empty", "bare"}

\* The payload of each layer of the corpus.
Payload(id) == IF id = "a" THEN <<"x">> ELSE <<"y">>

LayerEntries(l) ==
    <<Entry(<<l.id, "/">>, <<>>), Entry(<<l.id, "/json">>, <<"{}">>)>>
    \o (CASE l.shape = "bare"  -> <<>>
          [] l.shape = "empty" -> <<Entry(<<l.id, "/layer.tar">>, <<>>)>>
          [] OTHER             -> <<Entry(<<l.id, "/layer.tar">>, Payload(l.id))>>)

Layers == [id : LayerIds, shape : LayerShapes]
LayerSeqs ==
    {<<>>} \cup {<<l>> : l \in Layers}
           \cup {ls \in Layers \X Layers : ls[1].id # ls[2].id}

RECURSIVE ConcatLayers(_)
ConcatLayers(ls) ==
    IF ls = <<>> THEN <<>> ELSE LayerEntries(Head(ls)) \o ConcatLayers(Tail(ls))

\* The archive as docker save writes it: the layers, then the index.
ArchiveEntries(ls, index) ==
    ConcatLayers(ls) \o (IF index = <<>> THEN <<>> ELSE <<Entry(<<"repositories">>, index)>>)

NoArchive == [exists |-> FALSE, entries |-> <<>>]
Archive(ls, index) == [exists |-> TRUE, entries |-> ArchiveEntries(ls, index)]

\* A two-layer archive whose repositories entry has no bytes.
EmptyIndexArchive ==
    [exists |-> TRUE,
     entries |-> ConcatLayers(<<[id |-> "a", shape |-> "full"], [id |-> "b", shape |-> "full"]>>)
                 \o <<Entry(<<"repositories">>, <<>>)>>]

\* The archives of the corpus: every layer sequence under a well-formed
\* index, every index (or none, or an empty one) over a fixed two-layer
\* image, and a path that names no file.
Archives ==
    {Archive(ls, IndexOk) : ls \in LayerSeqs}
    \cup {Archive(<<[id |-> "a", shape |-> "full"], [id |-> "b", shape |-> "full"]>>, index) :
            index \in IndexDocs \cup {<<>>}}
    \cup {EmptyIndexArchive, NoArchive}

\* ------------------------------------------------------------------ PushImage
Last(seq) == seq[Len(seq)]
Front(seq) == SubSeq(seq, 1, Len(seq) - 1)

IsDirectoryEntry(name) == Last(name) = "/"
IsExtractedEntry(name) == name = <<"repositories">> \/ Last(name) = "/layer.tar"

\* The directory that must exist for a name to be created in the staging
\* directory; <<>> is the staging directory itself.
ParentExists(dir, name) == Front(name) = <<>> \/ Front(name) \in dir.dirs

\* io.Copy into a file opened with O_CREATE|O_RDWR: no truncation.
WriteOver(old, data) == data \o SubSeq(old, Len(data) + 1, Len(old))

\* An expand step that accepts an entry written with zero bytes.
ExpandEntry_NoZeroCheck(dir, e) ==
    IF IsDirectoryEntry(e.name)
    THEN IF Front(e.name) \in dir.dirs \/ ~ParentExists(dir, Front(e.name))
         THEN [err |-> IOError(<<"mkdir ">> \o e.name), dir |-> dir]
         ELSE [err |-> Nil, dir |-> [dir EXCEPT !.dirs = @ \cup {Front(e.name)}]]
    ELSE IF IsExtractedEntry(e.name)
    THEN IF ~ParentExists(dir, e.name) \/ e.name \in dir.dirs
         THEN [err |-> IOError(<<"open ">> \o e.name), dir |-> dir]
         ELSE LET old == IF e.name \in DOMAIN dir.files THEN dir.files[e.name] ELSE <<>>
              IN  [err |-> Nil,
                   dir |-> [dir EXCEPT !.files = (e.name :> WriteOver(old, e.data)) @@ @]]
    ELSE [err |-> Nil, dir |-> dir]

\* One tar entry of the expand loop, on staging directory dir.
ExpandEntry(dir, e) ==
    IF IsDirectoryEntry(e.name)
    THEN IF Front(e.name) \in dir.dirs \/ ~ParentExists(dir, Front(e.name))
         THEN [err |-> IOError(<<"mkdir ">> \o e.name), dir |-> dir]
         ELSE [err |-> Nil, dir |-> [dir EXCEPT !.dirs = @ \cup {Front(e.name)}]]
    ELSE IF IsExtractedEntry(e.name)
    THEN IF ~ParentExists(dir, e.name) \/ e.name \in dir.dirs
         THEN [err |-> IOError(<<"open ">> \o e.name), dir |-> dir]
         ELSE LET old == IF e.name \in DOMAIN dir.files THEN dir.files[e.name] ELSE <<>>
                  written == [dir EXCEPT !.files = (e.name :> WriteOver(old, e.data)) @@ @]
              IN  IF Len(e.data) = 0
                  THEN [err |-> ConstructServerError(<<"No data written to ">> \o e.name),
                        dir |-> written]
                  ELSE [err |-> Nil, dir |-> written]
    ELSE [err |-> Nil, dir |-> dir]

\* The expand loop: stops at the first entry that fails.
RECURSIVE Expand(_, _)
Expand(dir, entries) ==
    IF entries = <<>> THEN [err |-> Nil, dir |-> dir]
    ELSE LET r == ExpandEntry(dir, Head(entries))
         IN  IF r.err # Nil THEN r ELSE Expand(r.dir, Tail(entries))

Call_PushImage ==
    \E r \in RepoNames, t \in Tags, a \in Archives :
        /\ staleDirs < MaxTempDirs
        /\ Begin("PushImage", r, t)
        /\ imageFile' = a
        /\ UNCHANGED <<layerDigests, layerFilePath, digestString>>

\* Create a scratch directory and expand the tar file into it.
PushImage_Expand ==
    /\ pc = "PushImage"
    /\ \E made \in BOOLEAN :
        LET id == staleDirs + 1
            r == Expand(EmptyDir, imageFile.entries)
        IN  IF ~made
            THEN /\ Returns(<<>>, FALSE, IOError(<<"mkdir temp">>))
                 /\ UNCHANGED <<tempDirs, tempDirPath>>
            ELSE /\ tempDirPath' = id
                 /\ IF ~imageFile.exists
                    THEN /\ tempDirs' = (id :> EmptyDir)
                         /\ Returns(<<>>, FALSE, IOError(<<"open image file">>))
                    ELSE /\ tempDirs' = (id :> r.dir)
                         /\ IF r.err # Nil
                            THEN Returns(<<>>, FALSE, r.err)
                            ELSE pc' = "PushImage_ParseRepositories" /\ UNCHANGED result
    /\ UNCHANGED <<svcVars, pullVars, registryVars, staleDirs, callVars, imageDigest, layerFilenames,
                   layerIdx, layerDigests, layerVars, reqLog, stdout>>

\* A repositories check that takes an image id of any JSON type.
ParseRepositories_AnyId(dir) ==
    IF <<"repositories">> \notin DOMAIN dir.files
    THEN [imageDigest |-> "", err |-> IOError(<<"open repositories">>)]
    ELSE
    LET parsed == JsonUnmarshal(dir.files[<<"repositories">>])
        repositoriesMap == parsed.obj.m
        Fail(msg) == [imageDigest |-> "", err |-> ConstructServerError(<<msg>>)]
    IN  IF ~parsed.ok THEN [imageDigest |-> "", err |-> IOError(<<"invalid json">>)]
        ELSE IF parsed.obj.t # "map"
        THEN Fail("repositories file json does not translate to a map[string]interface")
        ELSE IF Cardinality(DOMAIN repositoriesMap) = 0
        THEN Fail("No entries found in repository map for image")
        ELSE IF Cardinality(DOMAIN repositoriesMap) > 1
        THEN Fail("More than one entry found in repository map for image")
        ELSE
        LET tagObj == repositoriesMap[CHOOSE k \in DOMAIN repositoriesMap : TRUE]
            tagMap == tagObj.m
        IN  IF tagObj.t # "map"
            THEN Fail("repository json does not translate to a map[string]interface")
            ELSE IF Cardinality(DOMAIN tagMap) = 0
            THEN Fail("No entries found in tag map for repo")
            ELSE IF Cardinality(DOMAIN tagMap) > 1
            THEN Fail("More than one entry found in tag map for repo")
            ELSE [imageDigest |-> tagMap[CHOOSE k \in DOMAIN tagMap : TRUE].s, err |-> Nil]

\* A repositories check that rejects an empty map only: of several
\* repositories or tags it takes one.
ParseRepositories_NoUpperBound(dir) ==
    IF <<"repositories">> \notin DOMAIN dir.files
    THEN [imageDigest |-> "", err |-> IOError(<<"open repositories">>)]
    ELSE
    LET parsed == JsonUnmarshal(dir.files[<<"repositories">>])
        repositoriesMap == parsed.obj.m
        Fail(msg) == [imageDigest |-> "", err |-> ConstructServerError(<<msg>>)]
    IN  IF ~parsed.ok THEN [imageDigest |-> "", err |-> IOError(<<"invalid json">>)]
        ELSE IF parsed.obj.t # "map"
        THEN Fail("repositories file json does not translate to a map[string]interface")
        ELSE IF Cardinality(DOMAIN repositoriesMap) = 0
        THEN Fail("No entries found in repository map for image")
        ELSE
        LET tagObj == repositoriesMap[CHOOSE k \in DOMAIN repositoriesMap : TRUE]
            tagMap == tagObj.m
        IN  IF tagObj.t # "map"
            THEN Fail("repository json does not translate to a map[string]interface")
            ELSE IF Cardinality(DOMAIN tagMap) = 0
            THEN Fail("No entries found in tag map for repo")
            ELSE
            LET tagDigestObj == tagMap[CHOOSE k \in DOMAIN tagMap : TRUE]
            IN  IF tagDigestObj.t # "string" THEN Fail("Digest is not a string")
                ELSE [imageDigest |-> tagDigestObj.s, err |-> Nil]

\* The outcome of reading the repositories index: the image id or an error.
ParseRepositories(dir) ==
    IF <<"repositories">> \notin DOMAIN dir.files
    THEN [imageDigest |-> "", err |-> IOError(<<"open repositories">>)]
    ELSE
    LET parsed == JsonUnmarshal(dir.files[<<"repositories">>])
        repositoriesMap == parsed.obj.m
        Fail(msg) == [imageDigest |-> "", err |-> ConstructServerError(<<msg>>)]
    IN  IF ~parsed.ok THEN [imageDigest |-> "", err |-> IOError(<<"invalid json">>)]
        ELSE IF parsed.obj.t # "map"
        THEN Fail("repositories file json does not translate to a map[string]interface")
        ELSE IF Cardinality(DOMAIN repositoriesMap) = 0
        THEN Fail("No entries found in repository map for image")
        ELSE IF Cardinality(DOMAIN repositoriesMap) > 1
        THEN Fail("More than one entry found in repository map for image")
        ELSE
        LET tagObj == repositoriesMap[CHOOSE k \in DOMAIN repositoriesMap : TRUE]
            tagMap == tagObj.m
        IN  IF tagObj.t # "map"
            THEN Fail("repository json does not translate to a map[string]interface")
            ELSE IF Cardinality(DOMAIN tagMap) = 0
            THEN Fail("No entries found in tag map for repo")
            ELSE IF Cardinality(DOMAIN tagMap) > 1
            THEN Fail("More than one entry found in tag map for repo")
            ELSE
            LET tagDigestObj == tagMap[CHOOSE k \in DOMAIN tagMap : TRUE]
            IN  IF tagDigestObj.t # "string" THEN Fail("Digest is not a string")
                ELSE [imageDigest |-> tagDigestObj.s, err |-> Nil]

\* Parse the 'repositories' file.
PushImage_ParseRepositories ==
    /\ pc = "PushImage_ParseRepositories"
    /\ LET r == ParseRepositories(tempDirs[tempDirPath])
       IN  IF r.err # Nil
           THEN /\ Returns(<<>>, FALSE, r.err)
                /\ UNCHANGED imageDigest
           ELSE /\ imageDigest' = r.imageDigest
                /\ pc' = "PushImage_ListLayers"
                /\ UNCHANGED result
    /\ UNCHANGED <<svcVars, pullVars, registryVars, fsVars, callVars, tempDirPath, layerFilenames,
                   layerIdx, layerDigests, layerVars, reqLog, stdout>>

\* A listing that leaves out the directories without a layer.tar file.
TopLevelNames_LayerDirs(dir) ==
    {d[1] : d \in {x \in dir.dirs : Len(x) = 1 /\ <<x[1], "/layer.tar">> \in DOMAIN dir.files}}
    \cup {f[1] : f \in {x \in DOMAIN dir.files : Len(x) = 1}}

\* The names Readdirnames finds in the staging directory.
TopLevelNames(dir) ==
    {d[1] : d \in {x \in dir.dirs : Len(x) = 1}}
    \cup {f[1] : f \in {x \in DOMAIN dir.files : Len(x) = 1}}

\* Readdirnames returns the names in directory order: any order.
Listings(names) ==
    {f \in [1..Cardinality(names) -> names] : \A n \in names : \E i \in DOMAIN f : f[i] = n}

\* Obtain digest strings and layer paths.
PushImage_ListLayers ==
    /\ pc = "PushImage_ListLayers"
    /\ \E names \in Listings(TopLevelNames(tempDirs[tempDirPath])) :
        layerFilenames' = names
    /\ pc' = "PushImage_NextLayer"
    /\ UNCHANGED <<svcVars, pullVars, registryVars, fsVars, callVars, tempDirPath, imageDigest,
                   layerIdx, layerDigests, layerVars, reqLog, stdout, result>>

LayerFilePath(dirId, layerFilename) == [dir |-> dirId, name |-> <<layerFilename, "/layer.tar">>]

\* Send each layer to the registry: one iteration of the loop.
PushImage_NextLayer ==
    /\ pc = "PushImage_NextLayer"
    /\ IF layerIdx = Len(layerFilenames)
       THEN /\ pc' = "PushManifest"
            /\ UNCHANGED <<layerIdx, layerFilePath>>
       ELSE /\ layerIdx' = layerIdx + 1
            /\ IF layerFilenames[layerIdx + 1] = "repositories"
               THEN UNCHANGED <<pc, layerFilePath>>
               ELSE /\ layerFilePath' = LayerFilePath(tempDirPath, layerFilenames[layerIdx + 1])
                    /\ pc' = "PushLayer"
    /\ UNCHANGED <<svcVars, pullVars, registryVars, fsVars, callVars, tempDirPath, imageDigest,
                   layerFilenames, layerDigests, digestString, location, request,
                   reqLog, stdout, result>>

\* A manifest address by image digest instead of by tag.
ManifestUri_ByDigest(r, t) == <<"v2/", r, "/manifests/", "sha256:d2cf21">>

\* ------------------------------------------------------------------ PushManifest
ManifestUri(r, t) == <<"v2/", r, "/manifests/", t>>

\* scheme://hostname[:port]/uri
ManifestUrl(r, t) ==
    <<RestContext.scheme, "://", RestContext.hostname>>
    \o (IF RestContext.port # 0 THEN <<":", ToString(RestContext.port)>> ELSE <<>>)
    \o <<"/">> \o ManifestUri(r, t)

RECURSIVE FsLayers(_, _)
FsLayers(layerDigestStrings, i) ==
    IF i > Len(layerDigestStrings) THEN <<>>
    ELSE (IF i > 1 THEN <<",\n">> ELSE <<>>)
         \o <<"{\"blobSum\": \"", "sha256:">> \o layerDigestStrings[i] \o <<"\"}">>
         \o FsLayers(layerDigestStrings, i + 1)

\* A manifest text named after the repository and tag of the archive's index.
Manifest_IndexNames(r, t, layerDigestStrings) ==
    <<"{\"name\": \"", "realm4/repo1", "\", \"tag\": \"", "myimage2", "\", \"fsLayers\": [">>
    \o FsLayers(layerDigestStrings, 1) \o <<"]}">>

\* A manifest text that leaves out the first digest of the list.
Manifest_DropsFirst(r, t, layerDigestStrings) ==
    <<"{\"name\": \"", r, "\", \"tag\": \"", t, "\", \"fsLayers\": [">>
    \o FsLayers(layerDigestStrings, 2) \o <<"]}">>

\* The manifest text PushManifest builds.
Manifest(r, t, layerDigestStrings) ==
    <<"{\"name\": \"", r, "\", \"tag\": \"", t, "\", \"fsLayers\": [">>
    \o FsLayers(layerDigestStrings, 1) \o <<"]}">>

\* The registry stores a manifest under the repository and tag of the URL.
StoreManifest(url, body) ==
    LET r == url[Len(url) - 2]
        t == url[Len(url)]
    IN  {m \in manifests : ~(m.repo = r /\ m.tag = t)}
        \cup {[repo |-> r, tag |-> t, body |-> body]}

\* A PushManifest that does not look at the response status.
PushManifestError_Swallow(response) ==
    IF response.failed THEN TransportError ELSE Nil

\* The error of PushManifest for the response to its PUT.
PushManifestError(response) ==
    IF response.failed THEN TransportError
    ELSE GenerateError(response.StatusCode,
                       <<StatusLine(response.StatusCode), "; while putting manifest">>)

\* Digest lists a caller passes to PushManifest.
DigestLists ==
    LET D == {Sha256Hex(c) : c \in LayerContents}
    IN  {<<>>} \cup {<<d>> : d \in D} \cup (D \X D)

Call_PushManifest ==
    \E r \in RepoNames, t \in Tags, ds \in DigestLists :
        /\ Begin("PushManifest", r, t)
        /\ layerDigests' = ds
        /\ UNCHANGED <<imageFile, layerFilePath, digestString>>

\* PushManifest: the whole call is one PUT.  When PushImage made the call,
\* it returns the error, or removes its staging directory and returns nil.
PushManifest ==
    /\ pc = "PushManifest"
    /\ \E response \in PutResponses, readOk \in BOOLEAN :
        LET url == ManifestUrl(repoName, tag)
            manifest == Manifest(repoName, tag, layerDigests)
            err == PushManifestError(response)
        IN  /\ readOk \/ (~response.failed /\ err # Nil)
            /\ reqLog' = Append(reqLog, Sent("PUT", url, manifest, response,
                                             ManifestPresent(repoName, tag)))
            /\ manifests' = IF ~response.failed /\ err = Nil
                            THEN StoreManifest(url, manifest) ELSE manifests
            /\ stdout' = stdout \o <<<<"url=">> \o url, <<"manifest:">>, manifest, <<>>>>
                         \o (IF response.failed \/ err = Nil THEN <<>>
                             ELSE IF readOk
                             THEN <<<<"Response body:">>, response.Body,
                                    <<"\nEnd of Response body.">>>>
                             ELSE <<<<"While readoing response body, ">>>>)
            /\ Returns(<<>>, FALSE, err)
            /\ tempDirs' = IF op = "PushImage" /\ err = Nil
                           THEN [d \in DOMAIN tempDirs \ {tempDirPath} |-> tempDirs[d]]
                           ELSE tempDirs
    /\ UNCHANGED <<svcVars, pullVars, blobs, staleDirs, callVars, imageVars, layerVars>>

\* ------------------------------------------------------------------ manifests
\* JSON decoding of the fsLayers text PushManifest writes: the blobSum
\* values, in order.
RECURSIVE UpToQuote(_)
UpToQuote(text) ==
    IF text = <<>> \/ Head(text) = "\"}" THEN <<>>
    ELSE <<Head(text)>> \o UpToQuote(Tail(text))

RECURSIVE BlobSums(_)
BlobSums(text) ==
    IF text = <<>> THEN <<>>
    ELSE IF Head(text) = "{\"blobSum\": \"" THEN <<UpToQuote(Tail(text))>> \o BlobSums(Tail(text))
    ELSE BlobSums(Tail(text))

JArray(a) == [t |-> "array", s |-> "", m |-> a]

\* Manifest bodies a registry may answer with that are not the legacy
\* manifest (the JSON text as one token).
ManifestNoFsLayers       == <<"{\"name\": \"acme/app\", \"tag\": \"v1\"}">>
ManifestFsLayersNotArray == <<"{\"fsLayers\": \"none\"}">>
ManifestLayerNotMap      == <<"{\"fsLayers\": [5]}">>
ManifestNoBlobSum        == <<"{\"fsLayers\": [{\"blobSum\": \"sha256:2d71\"}, {}]}">>
ManifestBlobSumNumber    == <<"{\"fsLayers\": [{\"blobSum\": 5}]}">>
ManifestNotObject        == <<"[]">>
ManifestNotJson          == <<"<html>">>
MalformedManifests ==
    {ManifestNoFsLayers, ManifestFsLayersNotArray, ManifestLayerNotMap, ManifestNoBlobSum,
     ManifestBlobSumNumber, ManifestNotObject, ManifestNotJson}

\* The bodies of the corpus for a manifest GET: the manifests PushManifest
\* writes for the repository and tag, and the malformed ones.
ManifestBodies(r, t) ==
    {Manifest(r, t, ds) : ds \in DigestLists} \cup MalformedManifests

\* rest.ParseResponseBodyToMap: the JSON object of the body as a map.
ParseResponseBodyToMap(body) ==
    CASE body = ManifestNoFsLayers ->
            [ok |-> TRUE, m |-> ("name" :> JString(<<"acme/app">>)) @@ ("tag" :> JString(<<"v1">>))]
      [] body = ManifestFsLayersNotArray ->
            [ok |-> TRUE, m |-> ("fsLayers" :> JString(<<"none">>))]
      [] body = ManifestLayerNotMap ->
            [ok |-> TRUE, m |-> ("fsLayers" :> JArray(<<JOther("number")>>))]
      [] body = ManifestNoBlobSum ->
            [ok |-> TRUE,
             m |-> ("fsLayers" :> JArray(<<JMap("blobSum" :> JString(<<"sha256:", "2d71">>)),
                                           JMap(<<>>)>>))]
      [] body = ManifestBlobSumNumber ->
            [ok |-> TRUE, m |-> ("fsLayers" :> JArray(<<JMap("blobSum" :> JOther("number"))>>))]
      [] body # <<>> /\ Head(body) = "{\"name\": \"" ->
            LET sums == BlobSums(body)
            IN  [ok |-> TRUE,
                 m |-> ("name" :> JString(<<body[2]>>)) @@ ("tag" :> JString(<<body[4]>>))
                       @@ ("fsLayers" :> JArray([i \in DOMAIN sums |->
                                                    JMap("blobSum" :> JString(sums[i]))]))]
      [] OTHER -> [ok |-> FALSE, m |-> <<>>]

\* A parseManifest that loses the last layer of the array.
parseManifest_DropsLast(body) ==
    LET parsed == ParseResponseBodyToMap(body)
        responseMap == parsed.m
        Fail(msg) == [layerAr |-> <<>>, err |-> ConstructServerError(msg)]
    IN  IF ~parsed.ok THEN [layerAr |-> <<>>, err |-> IOError(<<"invalid json">>)]
        ELSE IF "fsLayers" \notin DOMAIN responseMap
        THEN Fail(<<"Did not find fsLayers field in body">>)
        ELSE
        LET layersObj == responseMap["fsLayers"]
        IN  IF layersObj.t # "array"
            THEN Fail(<<"Type of layer description is ", layersObj.t>>)
            ELSE IF \E i \in DOMAIN layersObj.m : layersObj.m[i].t # "map"
            THEN Fail(<<"Type of layer object is not map">>)
            ELSE [layerAr |-> IF layersObj.m = <<>> THEN <<>> ELSE Front(layersObj.m),
                  err |-> Nil]

\* parseManifest: an array of maps, one for each layer, or an error.
parseManifest(body) ==
    LET parsed == ParseResponseBodyToMap(body)
        responseMap == parsed.m
        Fail(msg) == [layerAr |-> <<>>, err |-> ConstructServerError(msg)]
    IN  IF ~parsed.ok THEN [layerAr |-> <<>>, err |-> IOError(<<"invalid json">>)]
        ELSE IF "fsLayers" \notin DOMAIN responseMap
        THEN Fail(<<"Did not find fsLayers field in body">>)
        ELSE
        LET layersObj == responseMap["fsLayers"]
        IN  IF layersObj.t # "array"
            THEN Fail(<<"Type of layer description is ", layersObj.t>>)
            ELSE IF \E i \in DOMAIN layersObj.m : layersObj.m[i].t # "map"
            THEN LET i == CHOOSE k \in DOMAIN layersObj.m :
                              /\ layersObj.m[k].t # "map"
                              /\ \A j \in 1..(k - 1) : layersObj.m[j].t = "map"
                 IN  Fail(<<"Type of layer object is ", layersObj.m[i].t>>)
            ELSE [layerAr |-> layersObj.m, err |-> Nil]

\* ------------------------------------------------------------------ GetImageInfo
\* The call does not return: the Go runtime stops it with a panic.
Panic(msg) == [kind |-> "panic", status |-> 0, msg |-> msg]

\* The content digest a registry asserts for a manifest.
ManifestDigest == <<"sha256:", "9f2c">>

\* The values of the Docker-Content-Digest header of a response: none, one.
ContentDigestHeaders == {<<>>, <<ManifestDigest>>}

ManifestGetResponses(r, t) ==
    {GetResponse(200, h, b) : h \in ContentDigestHeaders, b \in ManifestBodies(r, t)}
    \cup {GetResponse(404, <<>>, ErrorBody), GetResponse(500, <<>>, ErrorBody), GetFailure}

\* GetImageInfo, from the response to its GET request.
GetImageInfoResult(response) ==
    LET Fail(err) == [digest |-> <<>>, layerAr |-> <<>>, err |-> err]
    IN  IF response.failed THEN Fail(TransportError)
        ELSE
        LET err == GenerateError(response.StatusCode,
                       <<StatusLine(response.StatusCode), "; while getting image info">>)
            parsed == parseManifest(response.Body)
            headers == response.DockerContentDigest
        IN  IF err # Nil THEN Fail(err)
            ELSE IF parsed.err # Nil THEN Fail(parsed.err)
            ELSE IF Len(headers) = 0
            THEN Fail(Panic(<<"index out of range">>))
            ELSE [digest |-> headers[1], layerAr |-> parsed.layerAr, err |-> Nil]

Call_GetImageInfo ==
    \E r \in RepoNames, t \in Tags :
        /\ Begin("GetImageInfo", r, t)
        /\ UNCHANGED <<imageFile, layerDigests, layerFilePath, digestString>>

GetImageInfo ==
    /\ pc = "GetImageInfo"
    /\ \E response \in ManifestGetResponses(repoName, tag) :
        LET uri == ManifestUri(repoName, tag)
            res == GetImageInfoResult(response)
        IN  /\ reqLog' = Append(reqLog, Sent("GET", uri, <<>>, response, ManifestAt(uri)))
            /\ resp' = response
            /\ layerAr' = res.layerAr
            /\ Returns(res.digest, FALSE, res.err)
    /\ UNCHANGED <<svcVars, registryVars, fsVars, callVars, imageVars, layerVars, tarFile, stdout>>

\* ------------------------------------------------------------------ DeleteImage
\* The blobSum of a layer descriptor, as GetImage and DeleteImage read it.
LayerDigest(layerDesc) ==
    IF "blobSum" \notin DOMAIN layerDesc.m
    THEN [digest |-> <<>>,
          err |-> ConstructServerError(<<"Did not find blobSum field in response for layer">>)]
    ELSE IF layerDesc.m["blobSum"].t # "string"
    THEN [digest |-> <<>>,
          err |-> ConstructServerError(<<"blogSum field is not a string - it is a ",
                                         layerDesc.m["blobSum"].t>>)]
    ELSE [digest |-> layerDesc.m["blobSum"].s, err |-> Nil]

BlobUri(r, digest) == <<"v2/", r, "/blobs/">> \o digest

DeleteResponses ==
    {Response(202, <<>>, <<>>), Response(404, <<>>, ErrorBody),
     Response(500, <<>>, ErrorBody), SendFailure}

\* The registry deletes what a DELETE it accepts addresses.
RemoveBlob(uri) ==
    {b \in blobs : ~(b.repo = uri[2] /\ b.digest = SubSeq(uri, 4, Len(uri)))}
RemoveManifest(uri) ==
    {m \in manifests : ~(m.repo = uri[2] /\ m.tag = uri[4])}

\* DeleteImage closes resp.Body (line 348) before parseManifest reads it
\* (line 354).  The body of an http.Response refuses a read after Close, so
\* the parse gets the read error and no layer.
ReadClosedBody(body) ==
    [layerAr |-> <<>>, err |-> IOError(<<"http: read on closed response body">>)]

Call_DeleteImage ==
    \E r \in RepoNames, t \in Tags :
        /\ Begin("DeleteImage", r, t)
        /\ UNCHANGED <<imageFile, layerDigests, layerFilePath, digestString>>

\* A DeleteImage that returns nil when the manifest cannot be parsed.
DeleteImage_GetManifest_SwallowsParseError ==
    /\ pc = "DeleteImage"
    /\ \E response \in ManifestGetResponses(repoName, tag) :
        LET uri == ManifestUri(repoName, tag)
            err == GenerateError(response.StatusCode,
                       <<StatusLine(response.StatusCode), "; while deleting image">>)
            parsed == ReadClosedBody(response.Body)
        IN  /\ reqLog' = Append(reqLog, Sent("GET", uri, <<>>, response, ManifestAt(uri)))
            /\ resp' = response
            /\ IF response.failed
               THEN Returns(<<>>, FALSE, TransportError) /\ UNCHANGED <<layerAr, layerIdx>>
               ELSE IF err # Nil
               THEN Returns(<<>>, FALSE, err) /\ UNCHANGED <<layerAr, layerIdx>>
               ELSE IF parsed.err # Nil
               THEN Returns(<<>>, FALSE, Nil) /\ UNCHANGED <<layerAr, layerIdx>>
               ELSE /\ layerAr' = parsed.layerAr
                    /\ layerIdx' = 0
                    /\ pc' = IF parsed.layerAr = <<>> THEN "DeleteImage_DeleteManifest"
                                                      ELSE "DeleteImage_DeleteLayer"
                    /\ UNCHANGED result
    /\ UNCHANGED <<svcVars, registryVars, fsVars, callVars, tempDirPath, imageDigest,
                   layerFilenames, layerDigests, layerVars, tarFile, stdout>>

\* Retrieve manifest.  Parse description of each layer: the parse fails on
\* the closed body, and the call returns its error after the GET.
DeleteImage_GetManifest ==
    /\ pc = "DeleteImage"
    /\ \E response \in ManifestGetResponses(repoName, tag) :
        LET uri == ManifestUri(repoName, tag)
            err == GenerateError(response.StatusCode,
                       <<StatusLine(response.StatusCode), "; while deleting image">>)
            parsed == ReadClosedBody(response.Body)
        IN  /\ reqLog' = Append(reqLog, Sent("GET", uri, <<>>, response, ManifestAt(uri)))
            /\ resp' = response
            /\ IF response.failed
               THEN Returns(<<>>, FALSE, TransportError) /\ UNCHANGED <<layerAr, layerIdx>>
               ELSE IF err # Nil
               THEN Returns(<<>>, FALSE, err) /\ UNCHANGED <<layerAr, layerIdx>>
               ELSE IF parsed.err # Nil
               THEN Returns(<<>>, FALSE, parsed.err) /\ UNCHANGED <<layerAr, layerIdx>>
               ELSE /\ layerAr' = parsed.layerAr
                    /\ layerIdx' = 0
                    /\ pc' = IF parsed.layerAr = <<>> THEN "DeleteImage_DeleteManifest"
                                                      ELSE "DeleteImage_DeleteLayer"
                    /\ UNCHANGED result
    /\ UNCHANGED <<svcVars, registryVars, fsVars, callVars, tempDirPath, imageDigest,
                   layerFilenames, layerDigests, layerVars, tarFile, stdout>>

\* The error of DeleteImage for the response to a blob DELETE.
DeleteLayerError(response) ==
    IF response.failed THEN TransportError
    ELSE GenerateError(response.StatusCode,
                       <<StatusLine(response.StatusCode), "; while deleting layer">>)

\* Delete each layer: one iteration of the loop.  The call returns before
\* the loop (line 355) whenever the manifest GET succeeded, so no behaviour
\* of the client takes this step; it is not part of Next.
DeleteImage_DeleteLayer ==
    /\ pc = "DeleteImage_DeleteLayer"
    /\ LET layerDesc == layerAr[layerIdx + 1]
           d == LayerDigest(layerDesc)
           uri == BlobUri(repoName, d.digest)
       IN  IF d.err # Nil
           THEN /\ Returns(<<>>, FALSE, d.err)
                /\ UNCHANGED <<blobs, layerIdx, reqLog>>
           ELSE \E response \in DeleteResponses :
                LET err == DeleteLayerError(response)
                IN  /\ reqLog' = Append(reqLog, Sent("DELETE", uri, <<>>, response, BlobAt(uri)))
                    /\ blobs' = IF ~response.failed /\ Success(response.StatusCode)
                                THEN RemoveBlob(uri) ELSE blobs
                    /\ IF err # Nil
                       THEN Returns(<<>>, FALSE, err) /\ UNCHANGED layerIdx
                       ELSE /\ layerIdx' = layerIdx + 1
                            /\ pc' = IF layerIdx + 1 = Len(layerAr)
                                      THEN "DeleteImage_DeleteManifest"
                                      ELSE "DeleteImage_DeleteLayer"
                            /\ UNCHANGED result
    /\ UNCHANGED <<svcVars, manifests, fsVars, callVars, tempDirPath, imageDigest, layerFilenames,
                   layerDigests, layerVars, pullVars, stdout>>

\* The error of DeleteImage for the response to its manifest DELETE: the
\* status of the response is not looked at.
DeleteManifestError(response) ==
    IF response.failed THEN TransportError ELSE Nil

\* Delete manifest.  Like the loop before it, a step the call never gets
\* to; it is not part of Next.
DeleteImage_DeleteManifest ==
    /\ pc = "DeleteImage_DeleteManifest"
    /\ \E response \in DeleteResponses :
        LET uri == ManifestUri(repoName, tag)
        IN  /\ reqLog' = Append(reqLog, Sent("DELETE", uri, <<>>, response, ManifestAt(uri)))
            /\ manifests' = IF ~response.failed /\ Success(response.StatusCode)
                            THEN RemoveManifest(uri) ELSE manifests
            /\ resp' = IF response.failed THEN GetFailure
                       ELSE GetResponse(response.StatusCode, <<>>, response.Body)
            /\ Returns(<<>>, FALSE, DeleteManifestError(response))
    /\ UNCHANGED <<svcVars, blobs, fsVars, callVars, imageVars, layerVars, layerAr, tarFile, stdout>>

\* ------------------------------------------------------------------ GetImage
BlobGetResponses ==
    {GetResponse(200, <<>>, c) : c \in LayerContents \cup {<<>>}}
    \cup {GetResponse(404, <<>>, ErrorBody), GetResponse(500, <<>>, ErrorBody), GetFailure}

\* A blob fetch that takes a missing blob for a layer without content.
FetchError_404Absent(response, uri) ==
    IF response.failed THEN TransportError
    ELSE IF response.StatusCode = 404 THEN Nil
    ELSE GenerateError(response.StatusCode,
                       <<StatusLine(response.StatusCode), "when requesting uri: '">> \o uri \o <<"'">>)

\* A blob fetch that does not look at the response status.
FetchError_Swallow(response, uri) ==
    IF response.failed THEN TransportError ELSE Nil

\* The error of GetImage for the response to a blob GET.
FetchError(response, uri) ==
    IF response.failed THEN TransportError
    ELSE GenerateError(response.StatusCode,
                       <<StatusLine(response.StatusCode), "when requesting uri: '">> \o uri \o <<"'">>)

\* Where the file system may fail GetImage while it packs one layer: not at
\* all, when it creates the layer file, when it copies the layer into the tar.
PackFailures == {"none", "layer file", "tar content"}

\* utils.MakeTempFile(dir, prefix): a new, empty file in dir, named by the
\* prefix; it fails when the file system refuses or the name is taken.
MakeTempFile(dir, prefix, failure) ==
    IF failure = "layer file" \/ prefix \in DOMAIN dir.files
    THEN [err |-> IOError(<<"create ">> \o prefix), dir |-> dir, name |-> <<>>]
    ELSE [err |-> Nil, dir |-> [dir EXCEPT !.files = (prefix :> <<>>) @@ @], name |-> prefix]

\* A pack step that drops what it wrote to the archive when a layer fails.
PackLayer_Rollback(tar, dir, digest, data, failure) ==
    LET made == MakeTempFile(dir, digest, failure)
    IN  IF made.err # Nil \/ Len(data) = 0 \/ failure = "tar content"
        THEN [err |-> ConstructServerError(<<"When packing layer ">> \o digest),
              tar |-> [tar EXCEPT !.entries = <<>>], dir |-> made.dir]
        ELSE [err |-> Nil, tar |-> [tar EXCEPT !.entries = Append(@, Entry(made.name, data))],
              dir |-> [made.dir EXCEPT !.files[made.name] = data]]

\* A pack step that does not check the size of the layer file.
PackLayer_NoSizeCheck(tar, dir, digest, data, failure) ==
    LET made == MakeTempFile(dir, digest, failure)
        written == [made.dir EXCEPT !.files[made.name] = data]
    IN  IF made.err # Nil
        THEN [err |-> ConstructServerError(<<"When creating layer file: ">> \o made.err.msg),
              tar |-> tar, dir |-> dir]
        ELSE IF failure = "tar content"
        THEN [err |-> ConstructServerError(<<"While writing layer content to tar archive: , ">>),
              tar |-> [tar EXCEPT !.entries = Append(@, Entry(made.name, <<>>))], dir |-> written]
        ELSE [err |-> Nil, tar |-> [tar EXCEPT !.entries = Append(@, Entry(made.name, data))],
              dir |-> written]

\* Create temporary file in which to write layer; add file to tar archive.
\* The layer file is named by the digest and holds the fetched data; the tar
\* header carries its name and size; a copy that fails leaves the header.
PackLayer(tar, dir, digest, data, failure) ==
    LET made == MakeTempFile(dir, digest, failure)
        written == [made.dir EXCEPT !.files[made.name] = data]
    IN  IF made.err # Nil
        THEN [err |-> ConstructServerError(<<"When creating layer file: ">> \o made.err.msg),
              tar |-> tar, dir |-> dir]
        ELSE IF Len(data) = 0
        THEN [err |-> ConstructServerError(<<"Layer file that was written, '">> \o made.name
                                             \o <<"', has zero size">>),
              tar |-> tar, dir |-> written]
        ELSE IF failure = "tar content"
        THEN [err |-> ConstructServerError(<<"While writing layer content to tar archive: , ">>),
              tar |-> [tar EXCEPT !.entries = Append(@, Entry(made.name, <<>>))], dir |-> written]
        ELSE [err |-> Nil, tar |-> [tar EXCEPT !.entries = Append(@, Entry(made.name, data))],
              dir |-> written]

\* tarWriter.Close(): the end of the archive is written, or the write fails.
CloseTar(tar, closed) ==
    IF closed THEN [err |-> Nil, tar |-> [tar EXCEPT !.closed = TRUE]]
    ELSE [err |-> ConstructServerError(<<"While closing tar archive: , ">>), tar |-> tar]

Call_GetImage ==
    \E r \in RepoNames, t \in Tags :
        /\ Begin("GetImage", r, t)
        /\ UNCHANGED <<imageFile, layerDigests, layerFilePath, digestString>>

\* os.RemoveAll of a staging directory.
RemoveAll(dirId) == [d \in DOMAIN tempDirs \ {dirId} |-> tempDirs[d]]

\* Retrieve manifest, parse description of each layer, create the image file
\* and the directory for the layer files.  With no layer to retrieve the tar
\* archive is closed and the call returns.
GetImage_GetManifest ==
    /\ pc = "GetImage"
    /\ \E response \in ManifestGetResponses(repoName, tag),
          created \in BOOLEAN, made \in BOOLEAN, closed \in BOOLEAN :
        LET uri == ManifestUri(repoName, tag)
            err == GenerateError(response.StatusCode,
                       <<StatusLine(response.StatusCode), "; while getting image">>)
            parsed == parseManifest(response.Body)
            parsedOk == ~response.failed /\ err = Nil /\ parsed.err = Nil
            id == staleDirs + 1
            newFile == [exists |-> TRUE, entries |-> <<>>, closed |-> FALSE]
            end == CloseTar(newFile, closed)
        IN  /\ ~parsedOk => (created /\ made /\ closed)
            /\ ~created => (made /\ closed)
            /\ (~made \/ (parsedOk /\ parsed.layerAr # <<>>)) => closed
            /\ reqLog' = Append(reqLog, Sent("GET", uri, <<>>, response, ManifestAt(uri)))
            /\ resp' = response
            /\ IF response.failed
               THEN /\ Returns(<<>>, FALSE, TransportError)
                    /\ UNCHANGED <<layerAr, tarFile, tempDirs, tempDirPath>>
               ELSE IF err # Nil
               THEN /\ Returns(<<>>, FALSE, err)
                    /\ UNCHANGED <<layerAr, tarFile, tempDirs, tempDirPath>>
               ELSE IF parsed.err # Nil
               THEN /\ Returns(<<>>, FALSE, parsed.err)
                    /\ UNCHANGED <<layerAr, tarFile, tempDirs, tempDirPath>>
               ELSE IF ~created
               THEN /\ Returns(<<>>, FALSE,
                               ConstructServerError(<<"When creating image file '">>))
                    /\ layerAr' = parsed.layerAr
                    /\ UNCHANGED <<tarFile, tempDirs, tempDirPath>>
               ELSE IF ~made
               THEN /\ Returns(<<>>, FALSE, ConstructServerError(
                               <<"When creating temp directory for writing layer files: ">>))
                    /\ layerAr' = parsed.layerAr
                    /\ tarFile' = newFile
                    /\ UNCHANGED <<tempDirs, tempDirPath>>
               ELSE /\ layerAr' = parsed.layerAr
                    /\ tempDirPath' = id
                    /\ IF parsed.layerAr = <<>>
                       THEN /\ tarFile' = end.tar
                            /\ UNCHANGED tempDirs
                            /\ Returns(<<>>, FALSE, end.err)
                       ELSE /\ tarFile' = newFile
                            /\ tempDirs' = (id :> EmptyDir)
                            /\ pc' = "GetImage_GetLayer"
                            /\ UNCHANGED result
    /\ UNCHANGED <<svcVars, registryVars, staleDirs, callVars, imageDigest, layerFilenames,
                   layerIdx, layerDigests, layerVars, stdout>>

\* Retrieve one layer and add it to the tar archive: one iteration of the
\* loop, after the last one the tar archive is closed.  Every return removes
\* the directory of the layer files.
GetImage_GetLayer ==
    /\ pc = "GetImage_GetLayer"
    /\ LET layerDesc == layerAr[layerIdx + 1]
           d == LayerDigest(layerDesc)
           uri == BlobUri(repoName, d.digest)
           last == layerIdx + 1 = Len(layerAr)
       IN  IF d.err # Nil
           THEN /\ Returns(<<>>, FALSE, d.err)
                /\ tempDirs' = RemoveAll(tempDirPath)
                /\ UNCHANGED <<reqLog, resp, tarFile, layerIdx>>
           ELSE \E response \in BlobGetResponses, failure \in PackFailures, closed \in BOOLEAN :
                LET err == FetchError(response, uri)
                    packed == PackLayer(tarFile, tempDirs[tempDirPath], d.digest,
                                        response.Body, failure)
                    end == CloseTar(packed.tar, closed)
                IN  /\ err # Nil => (failure = "none" /\ closed)
                    /\ (err = Nil /\ (packed.err # Nil \/ ~last)) => closed
                    /\ reqLog' = Append(reqLog, Sent("GET", uri, <<>>, response, BlobAt(uri)))
                    /\ resp' = response
                    /\ IF err # Nil
                       THEN /\ Returns(<<>>, FALSE, err)
                            /\ tempDirs' = RemoveAll(tempDirPath)
                            /\ UNCHANGED <<tarFile, layerIdx>>
                       ELSE IF packed.err # Nil
                       THEN /\ Returns(<<>>, FALSE, packed.err)
                            /\ tarFile' = packed.tar
                            /\ tempDirs' = RemoveAll(tempDirPath)
                            /\ UNCHANGED layerIdx
                       ELSE /\ layerIdx' = layerIdx + 1
                            /\ IF last
                               THEN /\ tarFile' = end.tar
                                    /\ tempDirs' = RemoveAll(tempDirPath)
                                    /\ Returns(<<>>, FALSE, end.err)
                               ELSE /\ tarFile' = packed.tar
                                    /\ tempDirs' = (tempDirPath :> packed.dir)
                                    /\ pc' = "GetImage_GetLayer"
                                    /\ UNCHANGED result
    /\ UNCHANGED <<svcVars, registryVars, staleDirs, callVars, tempDirPath, imageDigest,
                   layerFilenames, layerDigests, layerVars, layerAr, stdout>>

\* ------------------------------------------------------------------ names
\* The characters of the name components of the corpus: lower-case letters,
\* digits, the separators of docker names, and characters outside both.
LowerCase == {"a", "c", "e", "m", "p"}
Digits == {"0", "9"}
Separators == {".", "_", "-"}
OtherChars == {"A", "/"}
NameChars == LowerCase \cup Digits \cup Separators \cup OtherChars

\* The name components of length n.
RECURSIVE PartsOfLen(_)
PartsOfLen(n) ==
    IF n = 0 THEN {<<>>}
    ELSE {Append(q, c) : q \in PartsOfLen(n - 1), c \in NameChars}

\* The name components a caller passes.
NameParts == UNION {PartsOfLen(n) : n \in 0..MaxPartLen}

\* regexp.MatchString("^[a-z0-9\\-_]*$", part)
MatchString(p) == \A i \in DOMAIN p : p[i] \in LowerCase \cup Digits \cup {"-", "_"}

\* Check that repository name component conforms: nil, or an error.
NamePartConformsToDockerRules(p) ==
    IF ~MatchString(p)
    THEN ConstructServerError(<<"Name does not conform to docker rules">>)
    ELSE Nil

\* A caller holds a name component.
NameCheckInit ==
    /\ InitRegistry
    /\ part \in NameParts
    /\ InitParse
    /\ InitBuild

\* The caller checks the name component.
CheckNamePart ==
    /\ pc = "idle"
    /\ pc' = "done"
    /\ op' = "NamePartConformsToDockerRules"
    /\ result' = [op |-> "NamePartConformsToDockerRules", value |-> <<>>, found |-> FALSE,
                  err |-> NamePartConformsToDockerRules(part)]
    /\ UNCHANGED <<svcVars, pullVars, registryVars, fsVars, repoName, tag, imageFile,
                   imageVars, layerVars, reqLog, stdout>>

NameCheckNext == CheckNamePart

NameCheck == NameCheckInit /\ [][NameCheckNext]_vars

\* ------------------------------------------------------------------ specification
Next ==
    \/ Call_ImageExists
    \/ ImageExists
    \/ Call_LayerExistsInRepo
    \/ LayerExists
    \/ Call_PushLayer
    \/ PushLayer_ComputeDigest
    \/ PushLayer_CheckExists
    \/ PushLayer_StartUpload
    \/ PushLayer_Transfer
    \/ PushLayer_Finalize
    \/ Call_PushImage
    \/ PushImage_Expand
    \/ PushImage_ParseRepositories
    \/ PushImage_ListLayers
    \/ PushImage_NextLayer
    \/ Call_PushManifest
    \/ PushManifest
    \/ Call_GetImageInfo
    \/ GetImageInfo
    \/ Call_DeleteImage
    \/ DeleteImage_GetManifest
    \/ Call_GetImage
    \/ GetImage_GetManifest
    \/ GetImage_GetLayer
    \/ Return

Spec == Init /\ [][Next]_vars

\* ------------------------------------------------------------------ properties
Methods(log) == [i \in DOMAIN log |-> log[i].method]

IsPrefix(a, b) == Len(a) <= Len(b) /\ a = SubSeq(b, 1, Len(a))

Contains(seq, token) == \E i \in DOMAIN seq : seq[i] = token

IsBlobProbe(req) == req.method = "HEAD" /\ Len(req.url) > 3 /\ req.url[3] = "/blobs/"
IsFinalize(req) == req.method = "PUT" /\ Contains(req.url, "&digest=")
IsManifestPut(req) == req.method = "PUT" /\ Contains(req.url, "/manifests/")

\* The digest identifier in the path of a blob request.
PathDigest(req) == SubSeq(req.url, 4, Len(req.url))

\* The identifier of a content: sha256:<hex>.
DigestId(data) == <<"sha256:">> \o Sha256Hex(data)

\* The digest identifiers of the blob probes of a log, in order.
RECURSIVE ProbeDigests(_)
ProbeDigests(log) ==
    IF log = <<>> THEN <<>>
    ELSE (IF IsBlobProbe(Head(log)) THEN <<PathDigest(Head(log))>> ELSE <<>>)
         \o ProbeDigests(Tail(log))

\* The identifiers of the layer.tar payloads of an archive, in archive order.
RECURSIVE ArchiveLayerDigests(_)
ArchiveLayerDigests(entries) ==
    IF entries = <<>> THEN <<>>
    ELSE (IF Last(Head(entries).name) = "/layer.tar"
          THEN <<DigestId(Head(entries).data)>> ELSE <<>>)
         \o ArchiveLayerDigests(Tail(entries))

\* C1: for a layer whose digest is not yet in the repository, PushLayer
\* issues HEAD, POST, PATCH, PUT in this order, each request only after the
\* previous one succeeded, and a successful push has issued all four.
C1_RequestOrder ==
    (op = "PushLayer" /\ reqLog # <<>> /\ reqLog[1].status = 404) =>
        /\ IsPrefix(Methods(reqLog), <<"HEAD", "POST", "PATCH", "PUT">>)
        /\ \A i \in 2..(Len(reqLog) - 1) : Success(reqLog[i].status)
        /\ (pc = "done" /\ result.err = Nil) => Len(reqLog) = 4

\* C2: when the existence probe of PushLayer reports that the blob exists,
\* the call has returned the locally computed digest with no error and the
\* probe is the only request it issued.
C2_ExistsShortCircuit ==
    (op = "PushLayer" /\ reqLog # <<>> /\ IsBlobProbe(reqLog[1]) /\ Success(reqLog[1].status)) =>
        /\ pc = "done"
        /\ Len(reqLog) = 1
        /\ result.err = Nil
        /\ result.value = Sha256Hex(ReadFile(layerFilePath))

C2_Witness ==
    /\ op = "PushLayer" /\ pc = "done" /\ Len(reqLog) = 1
    /\ reqLog[1].status = 200 /\ result.value = <<"2d71">>

\* C3: a PushLayer of content that the repository already holds under its
\* sha256:<hex> digest (stored by an earlier push, not by this call), against
\* a registry that answers the probe by what it stores, issues the probe only
\* and returns the digest with no error.
C3_SecondPushShortCircuits ==
    (/\ op = "PushLayer"
     /\ reqLog # <<>>
     /\ BlobPresent(repoName, <<"sha256:">> \o digestString)
     /\ \A i \in DOMAIN reqLog : ~(IsFinalize(reqLog[i]) /\ Success(reqLog[i].status))
     /\ reqLog[1].status = (IF reqLog[1].present THEN 200 ELSE 404)) =>
        /\ Len(reqLog) = 1
        /\ pc = "done"
        /\ result.err = Nil
        /\ result.value = digestString

\* C4: the digest identifier in the existence-probe URL of PushLayer is
\* sha256:<hex> of the locally computed hash, the same identifier as in the
\* finalize query parameter and in the blobSum of the manifest.
C4_SameDigestIdentifier ==
    /\ op = "PushLayer" =>
        \A i \in DOMAIN reqLog :
            /\ IsBlobProbe(reqLog[i]) => PathDigest(reqLog[i]) = DigestId(ReadFile(layerFilePath))
            /\ IsFinalize(reqLog[i]) => DigestParam(reqLog[i].url) = DigestId(ReadFile(layerFilePath))
    /\ op = "PushImage" =>
        \A i \in DOMAIN reqLog :
            IsManifestPut(reqLog[i]) => BlobSums(reqLog[i].body) = ProbeDigests(reqLog)

\* C5: in PushImage the manifest PUT is the last request, issued only after
\* a push completed successfully for every layer name listed; no request
\* before it failed, and the manifest lists the digests of the pushes in the
\* order the pushes were made.
C5_ManifestAfterAllLayers ==
    op = "PushImage" =>
        \A i \in DOMAIN reqLog :
            IsManifestPut(reqLog[i]) =>
                LET pushed == ProbeDigests(reqLog)
                    names == {k \in DOMAIN layerFilenames : layerFilenames[k] # "repositories"}
                IN  /\ i = Len(reqLog)
                    /\ layerIdx = Len(layerFilenames)
                    /\ Len(pushed) = Cardinality(names)
                    /\ \A j \in 1..(i - 1) :
                        /\ Success(reqLog[j].status) \/ (IsBlobProbe(reqLog[j]) /\ reqLog[j].status = 404)
                        /\ reqLog[j].method = "POST" => reqLog[j].nLocation = 1
                    /\ i > 1 =>
                        \/ IsBlobProbe(reqLog[i - 1]) /\ Success(reqLog[i - 1].status)
                        \/ IsFinalize(reqLog[i - 1])
                    /\ BlobSums(reqLog[i].body) = [k \in DOMAIN pushed |-> <<"sha256:">> \o pushed[k]]

C5_Witness ==
    /\ op = "PushImage" /\ pc = "done" /\ result.err = Nil
    /\ Len(layerDigests) = 2
    /\ IsManifestPut(reqLog[Len(reqLog)])

\* C6: the layer digests of the manifest PushImage publishes are in the order
\* of the layer entries of the archive, however the staging directory lists
\* its entries.
C6_ManifestInArchiveOrder ==
    op = "PushImage" =>
        \A i \in DOMAIN reqLog :
            IsManifestPut(reqLog[i]) =>
                BlobSums(reqLog[i].body) = ArchiveLayerDigests(imageFile.entries)

\* C7: both existence probes return (false, nil) for a 404, (true, nil) for a
\* success status, and an error for every other status.
C7_ProbeOutcomes ==
    (op \in {"ImageExists", "LayerExistsInRepo"} /\ pc = "done" /\ reqLog[1].status # 0) =>
        LET status == reqLog[1].status
        IN  /\ status = 404 => (~result.found /\ result.err = Nil)
            /\ Success(status) => (result.found /\ result.err = Nil)
            /\ (status # 404 /\ ~Success(status)) =>
                   (~result.found /\ result.err # Nil /\ result.err.status = status)

C7_Witness ==
    /\ op = "ImageExists" /\ pc = "done"
    /\ reqLog[1].status = 404 /\ ~result.found /\ result.err = Nil

\* C8: when the upload-initiate response of PushLayer carries zero or more
\* than one Location value, the call has returned a protocol error and the
\* initiate request is the last request it issued.
C8_OneLocationRequired ==
    op = "PushLayer" =>
        \A i \in DOMAIN reqLog :
            (reqLog[i].method = "POST" /\ Success(reqLog[i].status) /\ reqLog[i].nLocation # 1) =>
                /\ i = Len(reqLog)
                /\ pc = "done"
                /\ result.err.kind = "server"

C8_Witness ==
    /\ op = "PushLayer" /\ pc = "done" /\ Len(reqLog) = 2
    /\ reqLog[2].method = "POST" /\ reqLog[2].status = 202 /\ reqLog[2].nLocation = 2

\* C9: a non-success status on the finalize request makes
\* PushLayer return an error that carries the response body.
C9_ErrorCarriesBody ==
    op = "PushLayer" =>
        \A i \in DOMAIN reqLog :
            (IsFinalize(reqLog[i]) /\ reqLog[i].status # 0 /\ ~Success(reqLog[i].status)) =>
                /\ i = Len(reqLog)
                /\ pc = "done"
                /\ result.err # Nil
                /\ \A k \in DOMAIN reqLog[i].respBody : Contains(result.err.msg, reqLog[i].respBody[k])

\* C10: when PushImage has returned, no staging directory is left.
C10_NoStagingDirLeft ==
    (op = "PushImage" /\ pc = "done") => DOMAIN tempDirs = {}

\* The repositories index documents of an archive, in archive order.
RECURSIVE ArchiveIndexDocs(_)
ArchiveIndexDocs(entries) ==
    IF entries = <<>> THEN <<>>
    ELSE (IF Head(entries).name = <<"repositories">> THEN <<Head(entries).data>> ELSE <<>>)
         \o ArchiveIndexDocs(Tail(entries))

\* The number of entries of a decoded JSON map.
EntryCount(obj) == Cardinality(DOMAIN obj.m)

\* A decoded index with exactly one repository that has exactly one tag.
OneRepoOneTag(obj) ==
    /\ obj.t = "map"
    /\ EntryCount(obj) = 1
    /\ \A k \in DOMAIN obj.m : obj.m[k].t = "map" /\ EntryCount(obj.m[k]) = 1

\* A decoded index whose repository map, or whose single repository's tag
\* map, has no entry or more than one.
WrongCardinality(obj) ==
    /\ obj.t = "map"
    /\ \/ EntryCount(obj) # 1
       \/ \E k \in DOMAIN obj.m : obj.m[k].t = "map" /\ EntryCount(obj.m[k]) # 1

\* C11: PushImage returns an error for every archive whose repositories index
\* has no or several repository entries, or whose single repository has no or
\* several tag entries, without listing or pushing any layer; it lists the
\* layers only for an index with exactly one repository with exactly one tag.
C11_IndexCardinality ==
    op = "PushImage" =>
        LET docs == ArchiveIndexDocs(imageFile.entries)
        IN  /\ \A k \in DOMAIN docs :
                LET parsed == JsonUnmarshal(docs[k])
                IN  (parsed.ok /\ WrongCardinality(parsed.obj)) =>
                        /\ pc \in {"PushImage", "PushImage_ParseRepositories", "done"}
                        /\ layerFilenames = <<>>
                        /\ reqLog = <<>>
                        /\ pc = "done" => result.err # Nil
            /\ (layerFilenames # <<>> \/ reqLog # <<>>) =>
                    /\ docs # <<>>
                    /\ JsonUnmarshal(docs[Len(docs)]).ok
                    /\ OneRepoOneTag(JsonUnmarshal(docs[Len(docs)]).obj)

C11_Witness ==
    /\ op = "PushImage" /\ pc = "done"
    /\ ArchiveIndexDocs(imageFile.entries) = <<IndexTwoTags>>
    /\ result.err = ConstructServerError(<<"More than one entry found in tag map for repo">>)

\* The layer descriptors a manifest body decodes to, each with a blobSum
\* string: a complete manifest.
CompleteManifest(body) ==
    LET parsed == ParseResponseBodyToMap(body)
    IN  /\ parsed.ok
        /\ "fsLayers" \in DOMAIN parsed.m
        /\ parsed.m["fsLayers"].t = "array"
        /\ \A i \in DOMAIN parsed.m["fsLayers"].m :
              LET layerDesc == parsed.m["fsLayers"].m[i]
              IN  /\ layerDesc.t = "map"
                  /\ "blobSum" \in DOMAIN layerDesc.m
                  /\ layerDesc.m["blobSum"].t = "string"

\* C12: GetImageInfo never accepts a partial manifest: for a body without
\* fsLayers, with an fsLayers that is not an array, or with an fsLayers element
\* whose blobSum is missing or not a string, it returns an error and no layers.
C12_NoPartialManifest ==
    (/\ op = "GetImageInfo" /\ pc = "done"
     /\ Success(reqLog[1].status)
     /\ ~CompleteManifest(resp.Body)) =>
        result.err # Nil /\ layerAr = <<>>

\* C13: GetImageInfo on a successful manifest response without a
\* Docker-Content-Digest value returns normally: an empty digest, the parsed
\* layers and no error.
C13_AbsentDigestHeader ==
    (/\ op = "GetImageInfo" /\ pc = "done"
     /\ Success(reqLog[1].status)
     /\ parseManifest(resp.Body).err = Nil
     /\ resp.DockerContentDigest = <<>>) =>
        /\ result.err = Nil
        /\ result.value = <<>>
        /\ layerAr = parseManifest(resp.Body).layerAr

IsDelete(req) == req.method = "DELETE"

IsUploadStart(req) == req.method = "POST"
IsBlobGet(req) == req.method = "GET" /\ Len(req.url) > 3 /\ req.url[3] = "/blobs/"

\* A response that lets the operation go on: a success status, or a 404 to
\* an existence probe.
GoesOn(req) == Success(req.status) \/ (req.method = "HEAD" /\ req.status = 404)

\* The blobSum string of the i-th layer descriptor.
BlobSumAt(i) == layerAr[i].m["blobSum"].s

\* C16: in PushImage and GetImage the layer transfers come one at a time and
\* nothing is retried: every request but the last was answered with a success
\* (or 404 to an existence probe), the request after it is the next step of
\* the same layer or the first step of the next layer, never the same step
\* again, and a request answered otherwise is the last one and the operation
\* has returned an error.
C16_OneAtATimeNoRetry ==
    /\ op \in {"PushImage", "GetImage"} =>
        /\ \A i \in 1..(Len(reqLog) - 1) : GoesOn(reqLog[i])
        /\ (reqLog # <<>> /\ ~GoesOn(reqLog[Len(reqLog)])) => (pc = "done" /\ result.err # Nil)
    /\ op = "PushImage" =>
        /\ Len(ProbeDigests(reqLog))
              <= Cardinality({k \in 1..layerIdx : layerFilenames[k] # "repositories"})
        /\ \A i \in 2..Len(reqLog) :
              /\ IsBlobProbe(reqLog[i]) =>
                    \/ IsBlobProbe(reqLog[i - 1]) /\ Success(reqLog[i - 1].status)
                    \/ IsFinalize(reqLog[i - 1])
              /\ IsUploadStart(reqLog[i]) =>
                    IsBlobProbe(reqLog[i - 1]) /\ reqLog[i - 1].status = 404
              /\ IsFinalize(reqLog[i]) => IsUploadStart(reqLog[i - 1])
              /\ ~IsManifestPut(reqLog[i - 1])
    /\ op = "GetImage" =>
        /\ Len(reqLog) <= Len(layerAr) + 1
        /\ \A i \in 2..Len(reqLog) :
              IsBlobGet(reqLog[i]) /\ reqLog[i].url = BlobUri(repoName, BlobSumAt(i - 1))

C16_Witness ==
    /\ op = "GetImage" /\ pc = "done" /\ result.err # Nil
    /\ Len(layerAr) = 2 /\ Len(reqLog) = 2
    /\ reqLog[2].status = 500

\* C17: when the manifest PUT of PushImage is answered with a non-success
\* status, that step ends PushImage with an error, the PUT is the only
\* request of the step, and the registry holds the same blobs after it as
\* before it: the layers already uploaded are not removed.
C17_LayersNotRolledBack ==
    [][(op = "PushImage" /\ pc = "PushManifest") =>
          LET put == reqLog'[Len(reqLog')]
          IN  (put.status # 0 /\ ~Success(put.status)) =>
                  /\ pc' = "done"
                  /\ result'.err # Nil
                  /\ IsManifestPut(put)
                  /\ reqLog' = Append(reqLog, put)
                  /\ blobs' = blobs]_vars

C17_Witness ==
    /\ op = "PushImage" /\ pc = "done" /\ result.err # Nil
    /\ reqLog # <<>>
    /\ IsManifestPut(reqLog[Len(reqLog)]) /\ reqLog[Len(reqLog)].status = 500
    /\ \E i \in DOMAIN reqLog : IsFinalize(reqLog[i]) /\ Success(reqLog[i].status)
    /\ \E b \in blobs : b.repo = repoName /\ b.digest = <<"sha256:", "2d71">>

\* C18: in GetImage a blob fetch answered with a non-success status, 404
\* included, is the last request: the call has returned an error that carries
\* the status, and no tar entry stands for the missing blob.
C18_FetchFailureIsError ==
    op = "GetImage" =>
        \A i \in 2..Len(reqLog) :
            (reqLog[i].status # 0 /\ ~Success(reqLog[i].status)) =>
                /\ i = Len(reqLog)
                /\ pc = "done"
                /\ result.err.kind = "http"
                /\ result.err.status = reqLog[i].status
                /\ Len(tarFile.entries) = i - 2
                /\ ~tarFile.closed

C18_Witness ==
    /\ op = "GetImage" /\ pc = "done"
    /\ Len(reqLog) = 3 /\ reqLog[3].status = 404
    /\ result.err.status = 404 /\ Len(tarFile.entries) = 1

\* C19: a GetImage that returned nil has written and closed a tar archive
\* with one entry per layer of the manifest, in manifest order, each named by
\* the layer's digest and holding the content fetched for it; a fetched blob
\* of zero length makes the call return an error.
C19_OneEntryPerLayer ==
    op = "GetImage" =>
        /\ (pc = "done" /\ result.err = Nil) =>
              /\ tarFile.exists /\ tarFile.closed
              /\ Len(tarFile.entries) = Len(layerAr)
              /\ Len(reqLog) = Len(layerAr) + 1
              /\ \A i \in DOMAIN layerAr :
                    /\ tarFile.entries[i].name = BlobSumAt(i)
                    /\ tarFile.entries[i].data = reqLog[i + 1].respBody
        /\ \A i \in 2..Len(reqLog) :
              (Success(reqLog[i].status) /\ reqLog[i].respBody = <<>>) =>
                  i = Len(reqLog) /\ pc = "done" /\ result.err # Nil

C19_Witness ==
    /\ op = "GetImage" /\ pc = "done" /\ result.err = Nil
    /\ tarFile.entries = <<Entry(<<"sha256:", "2d71">>, <<"x">>),
                           Entry(<<"sha256:", "a1fc">>, <<"y">>)>>

\* C20: when GetImage has failed after it created the destination file, with
\* k - 1 layers appended, no blob was fetched for a layer after the k-th, and
\* the file is in place, not closed, and holds the entries of those k - 1
\* layers (and at most the header of the k-th).
C20_PartialFileLeft ==
    (op = "GetImage" /\ pc = "done" /\ result.err # Nil /\ tarFile.exists) =>
        /\ Len(reqLog) - 1 <= layerIdx + 1
        /\ Len(reqLog) - 1 <= Len(layerAr)
        /\ ~tarFile.closed
        /\ Len(tarFile.entries) \in {layerIdx, layerIdx + 1}
        /\ \A i \in 1..layerIdx :
              tarFile.entries[i] = Entry(BlobSumAt(i), reqLog[i + 1].respBody)
        /\ Len(tarFile.entries) = layerIdx + 1 =>
              tarFile.entries[layerIdx + 1] = Entry(BlobSumAt(layerIdx + 1), <<>>)

C20_Witness ==
    /\ op = "GetImage" /\ pc = "done" /\ result.err # Nil
    /\ Len(layerAr) = 2 /\ layerIdx = 1 /\ Len(reqLog) = 3
    /\ tarFile.exists
    /\ tarFile.entries = <<Entry(<<"sha256:", "2d71">>, <<"x">>)>>

\* C21: the manifest PushManifest emits lists exactly the supplied digests:
\* its fsLayers has the length and the order of the digest list, each element
\* being {"blobSum": "sha256:<digest>"}, for every list length including zero.
C21_ManifestMatchesDigestList ==
    \A i \in DOMAIN reqLog :
        IsManifestPut(reqLog[i]) =>
            LET sums == BlobSums(reqLog[i].body)
                elements == SelectSeq(reqLog[i].body, LAMBDA tok : tok = "\"}")
            IN  /\ Len(sums) = Len(layerDigests)
                /\ Len(elements) = Len(layerDigests)
                /\ \A k \in DOMAIN sums : sums[k] = <<"sha256:">> \o layerDigests[k]

\* A direct PushManifest call with two different digests has sent its manifest.
C21_Witness ==
    /\ op = "PushManifest" /\ pc = "done"
    /\ Len(layerDigests) = 2 /\ layerDigests[1] # layerDigests[2]
    /\ Len(reqLog) = 1 /\ IsManifestPut(reqLog[1])
    /\ BlobSums(reqLog[1].body) = <<<<"sha256:">> \o layerDigests[1], <<"sha256:">> \o layerDigests[2]>>

\* An archive entry that the unpack step writes to a file, with no bytes.
ZeroByteEntry(e) == IsExtractedEntry(e.name) /\ e.data = <<>>

\* C22: an archive entry named repositories or ending in /layer.tar that is
\* written with zero bytes makes PushImage return an error during the unpack:
\* no layer is pushed and no manifest is published.
C22_ZeroByteEntryRejected ==
    (/\ op = "PushImage"
     /\ \E i \in DOMAIN imageFile.entries : ZeroByteEntry(imageFile.entries[i]))
    => /\ pc \in {"PushImage", "done"}
       /\ pc = "done" => result.err # Nil
       /\ reqLog = <<>>
       /\ layerDigests = <<>>

\* An archive whose second layer has an empty layer.tar was rejected for it,
\* after its first layer was unpacked.
C22_Witness ==
    /\ op = "PushImage" /\ pc = "done"
    /\ \E i \in DOMAIN imageFile.entries :
          /\ ZeroByteEntry(imageFile.entries[i])
          /\ \E j \in 1..(i - 1) : /\ Last(imageFile.entries[j].name) = "/layer.tar"
                                   /\ imageFile.entries[j].data # <<>>
          /\ result.err = ConstructServerError(<<"No data written to ">>
                                               \o imageFile.entries[i].name)
    /\ reqLog = <<>>

\* The manifest body the registry holds for a repository and tag.
StoredManifest(r, t) == (CHOOSE m \in manifests : m.repo = r /\ m.tag = t).body

\* The response is what a registry that holds a manifest for the repository
\* and tag answers a manifest GET with: 200, the stored body, a content digest.
HonestManifestResponse(response, r, t) ==
    /\ ManifestPresent(r, t)
    /\ ~response.failed
    /\ response.StatusCode = 200
    /\ response.Body = StoredManifest(r, t)
    /\ response.DockerContentDigest # <<>>

\* C23: once a manifest with digests d1..dn was published under a repository
\* and tag, GetImageInfo on them returns n layers with the same digests in the
\* same order, together with a non-empty content digest and no error.
C23_InfoMatchesPublishedManifest ==
    (/\ op = "GetImageInfo" /\ pc = "done"
     /\ HonestManifestResponse(resp, repoName, tag))
    => /\ result.err = Nil
       /\ result.value # <<>>
       /\ \A ds \in DigestLists :
             StoredManifest(repoName, tag) = Manifest(repoName, tag, ds)
             => /\ Len(layerAr) = Len(ds)
                /\ \A i \in DOMAIN ds :
                      layerAr[i] = JMap("blobSum" :> JString(<<"sha256:">> \o ds[i]))

\* GetImageInfo has answered for a published manifest of two different layers.
C23_Witness ==
    /\ op = "GetImageInfo" /\ pc = "done"
    /\ HonestManifestResponse(resp, repoName, tag)
    /\ \E ds \in DigestLists :
          /\ Len(ds) = 2 /\ ds[1] # ds[2]
          /\ StoredManifest(repoName, tag) = Manifest(repoName, tag, ds)
          /\ Len(layerAr) = 2
    /\ result.value = ManifestDigest

\* The registry answered the existence probe of the log for what it holds at
\* the probed address: 200 when present, 404 when absent.
HonestProbe(req) == req.method = "HEAD" /\ req.status = (IF req.present THEN 200 ELSE 404)

\* C24: ImageExists answers false with no error when the registry holds no
\* manifest for the repository and tag, and true when it holds one; a
\* successful PushImage leaves a manifest under its repository and tag, and
\* only DeleteImage takes a manifest away.
C24_ExistsIffPublished ==
    /\ [](/\ (op = "ImageExists" /\ pc = "done" /\ HonestProbe(reqLog[1]))
             => (result.err = Nil /\ result.found = ManifestPresent(repoName, tag))
          /\ (op = "PushImage" /\ pc = "done" /\ result.err = Nil)
             => ManifestPresent(repoName, tag))
    /\ [][(\E m \in manifests : ~(\E n \in manifests' : n.repo = m.repo /\ n.tag = m.tag))
          => op = "DeleteImage"]_vars

\* ImageExists has answered true for a published manifest.
C24_Witness ==
    /\ op = "ImageExists" /\ pc = "done"
    /\ ManifestPresent(repoName, tag)
    /\ HonestProbe(reqLog[1])
    /\ result.found /\ result.err = Nil

\* What a blob fetch GET v2/<repo>/blobs/<digest> finds in the registry: the
\* contents stored in the repository under exactly that digest.
FetchedContents(r, digest) == {b.data : b \in {c \in blobs : c.repo = r /\ c.digest = digest}}

\* C25: after a successful PushLayer of content C, against a registry that
\* answers the probe by what it stores, a blob fetch of the returned digest
\* from the same repository yields C unchanged.
C25_PushThenFetch ==
    (/\ op = "PushLayer" /\ pc = "done" /\ result.err = Nil
     /\ HonestProbe(reqLog[1]))
    => FetchedContents(repoName, result.value) = {ReadFile(layerFilePath)}

\* ------------------------------------------------------------------ round trip
\* The caller of a successful PushImage goes on to GetImage for the same
\* repository and tag; it still holds the archive it pushed.
RoundTrip_GetImage ==
    /\ pc = "done" /\ op = "PushImage" /\ result.err = Nil
    /\ pc' = "GetImage"
    /\ op' = "GetImage"
    /\ staleDirs' = staleDirs + Cardinality(DOMAIN tempDirs)
    /\ tempDirs' = <<>>
    /\ tempDirPath' = 0
    /\ imageDigest' = ""
    /\ layerFilenames' = <<>>
    /\ layerIdx' = 0
    /\ layerDigests' = <<>>
    /\ layerFilePath' = NoPath
    /\ digestString' = <<>>
    /\ location' = <<>>
    /\ request' = NoRequest
    /\ reqLog' = <<>>
    /\ stdout' = <<>>
    /\ result' = NoResult
    /\ UNCHANGED <<svcVars, registryVars, repoName, tag, imageFile, pullVars>>

\* The registry answered a blob GET with what it holds at the address: 200
\* and the stored content, or 404.
HonestBlobResponse(response, req) ==
    /\ ~response.failed
    /\ IF req.present
       THEN /\ response.StatusCode = 200
            /\ response.Body \in FetchedContents(req.url[2], PathDigest(req))
       ELSE response.StatusCode = 404

\* GetImage's manifest GET against a registry that answers with what it holds.
RoundTrip_GetManifest ==
    /\ GetImage_GetManifest
    /\ HonestManifestResponse(resp', repoName, tag)

\* GetImage's blob GET against a registry that answers with what it holds.
RoundTrip_GetLayer ==
    /\ GetImage_GetLayer
    /\ reqLog' # reqLog => HonestBlobResponse(resp', reqLog'[Len(reqLog')])

\* One PushImage of an archive into an empty registry, followed by one
\* GetImage of the same repository and tag.
RoundTripNext ==
    \/ Call_PushImage
    \/ PushImage_Expand
    \/ PushImage_ParseRepositories
    \/ PushImage_ListLayers
    \/ PushImage_NextLayer
    \/ PushLayer_ComputeDigest
    \/ PushLayer_CheckExists
    \/ PushLayer_StartUpload
    \/ PushLayer_Transfer
    \/ PushLayer_Finalize
    \/ PushManifest
    \/ RoundTrip_GetImage
    \/ RoundTrip_GetManifest
    \/ RoundTrip_GetLayer

RoundTrip == Init /\ [][RoundTripNext]_vars

\* The (digest, content) pairs of the layer.tar payloads of an archive, in
\* archive order.
RECURSIVE ArchiveLayerPairs(_)
ArchiveLayerPairs(entries) ==
    IF entries = <<>> THEN <<>>
    ELSE (IF Last(Head(entries).name) = "/layer.tar"
          THEN <<<<DigestId(Head(entries).data), Head(entries).data>>>> ELSE <<>>)
         \o ArchiveLayerPairs(Tail(entries))

\* The (digest, content) pairs of the entries of the tar file GetImage wrote.
TarPairs(entries) == [i \in DOMAIN entries |-> <<entries[i].name, entries[i].data>>]

\* C26: PushImage of an archive with one repository/tag entry and N >= 0
\* layers followed by GetImage of the same repository and tag yields the
\* (digest, content) pairs of the archive's layers, in archive order.
C26_RoundTripOrder ==
    (op = "GetImage" /\ pc = "done" /\ result.err = Nil)
    => TarPairs(tarFile.entries) = ArchiveLayerPairs(imageFile.entries)

\* The strings the pattern [a-z0-9]+(?:[._-][a-z0-9]+)* matches as a whole:
\* runs of lower-case letters and digits joined by single separators.
MatchesDockerNamePattern(p) ==
    LET AlphaNum == LowerCase \cup Digits
    IN  /\ p # <<>>
        /\ \A i \in DOMAIN p : p[i] \in AlphaNum \cup Separators
        /\ p[1] \in AlphaNum
        /\ p[Len(p)] \in AlphaNum
        /\ \A i \in 1..(Len(p) - 1) : ~(p[i] \in Separators /\ p[i + 1] \in Separators)

\* C27: NamePartConformsToDockerRules returns nil exactly for the strings
\* that match [a-z0-9]+(?:[._-][a-z0-9]+)*, and an error for every other
\* string.
C27_NilIffPatternMatches ==
    (op = "NamePartConformsToDockerRules" /\ pc = "done")
    => (result.err = Nil <=> MatchesDockerNamePattern(part))

\* ------------------------------------------------------------------ unchecked names
\* A repository name with upper-case letters.
InvalidRepoNames == {"Acme/App"}

\* The characters of the repository names of the corpus.
RepoNameText(name) ==
    CASE name = "acme/app" -> <<"a", "c", "m", "e", "/", "a", "p", "p">>
      [] name = "Acme/App" -> <<"A", "c", "m", "e", "/", "A", "p", "p">>
      [] OTHER -> <<>>

\* A caller invokes ImageExists with any repository name.
AnyName_ImageExists ==
    \E r \in RepoNames \cup InvalidRepoNames, t \in Tags :
        /\ Begin("ImageExists", r, t)
        /\ UNCHANGED <<imageFile, layerDigests, layerFilePath, digestString>>

\* A caller invokes PushLayer with any repository name.
AnyName_PushLayer ==
    \E p \in UserPaths, r \in RepoNames \cup InvalidRepoNames :
        /\ Begin("PushLayer", r, "")
        /\ layerFilePath' = UserPath(p)
        /\ UNCHANGED <<imageFile, layerDigests, digestString>>

AnyNameNext ==
    \/ AnyName_ImageExists
    \/ ImageExists
    \/ AnyName_PushLayer
    \/ PushLayer_ComputeDigest
    \/ PushLayer_CheckExists
    \/ PushLayer_StartUpload
    \/ PushLayer_Transfer
    \/ PushLayer_Finalize
    \/ Return

AnyName == Init /\ [][AnyNameNext]_vars

\* The path components of a name: the runs of characters between slashes.
RECURSIVE SplitAtSlash(_)
SplitAtSlash(text) ==
    IF \A i \in DOMAIN text : text[i] # "/" THEN <<text>>
    ELSE LET k == CHOOSE i \in DOMAIN text :
                      text[i] = "/" /\ \A j \in 1..(i - 1) : text[j] # "/"
         IN  <<SubSeq(text, 1, k - 1)>> \o SplitAtSlash(SubSeq(text, k + 1, Len(text)))

\* Name validation: every path component of the name conforms.
ValidRepoName(name) ==
    LET parts == SplitAtSlash(RepoNameText(name))
    IN  \A i \in DOMAIN parts : NamePartConformsToDockerRules(parts[i]) = Nil

\* C28: no operation issues a request whose URL embeds a repository name that
\* fails name validation: a call with such a name sends nothing and returns
\* an error.
C28_InvalidNameNeverSent ==
    /\ \A i \in DOMAIN reqLog : \A k \in DOMAIN reqLog[i].url :
          reqLog[i].url[k] \in RepoNames \cup InvalidRepoNames
          => ValidRepoName(reqLog[i].url[k])
    /\ (pc = "done" /\ ~ValidRepoName(repoName)) => result.err # Nil

\* The positions of PushImage inside a PushLayer call.
InPushLayer ==
    pc \in {"PushLayer", "PushLayer_CheckExists", "PushLayer_StartUpload",
            "PushLayer_Transfer", "PushLayer_Finalize"}

\* The names of the top-level directory entries of an archive.
ArchiveDirs(entries) ==
    {entries[i].name[1] : i \in {k \in DOMAIN entries : /\ IsDirectoryEntry(entries[k].name)
                                                         /\ Len(entries[k].name) = 2}}

\* The archive has an entry of this name.
HasEntry(entries, name) == \E i \in DOMAIN entries : entries[i].name = name

\* The names other than repositories among the first n listed names.
LayerNamesUpTo(n) ==
    SelectSeq(SubSeq(layerFilenames, 1, n), LAMBDA name : name # "repositories")

\* C29 as claimed: every PushLayer call of PushImage is for a layer.tar entry
\* of the archive: every enumerated name other than repositories is a layer
\* directory that contains a layer.tar payload.
C29_OnlyLayerTarPushed ==
    (op = "PushImage" /\ InPushLayer) => HasEntry(imageFile.entries, layerFilePath.name)

\* C29 amended: PushImage calls PushLayer once for each name listed in the
\* staging directory other than repositories, on <name>/layer.tar; the names
\* are the top-level directory entries of the archive, with a layer.tar or
\* without; a directory without one fails the push before any request for
\* it; only repositories and */layer.tar entries are written to files.
C29_OnePushPerListedDirectory ==
    (op = "PushImage" /\ layerFilenames # <<>>) =>
        /\ {layerFilenames[i] : i \in DOMAIN layerFilenames} \ {"repositories"}
              = ArchiveDirs(imageFile.entries)
        /\ \A i, j \in DOMAIN layerFilenames : layerFilenames[i] = layerFilenames[j] => i = j
        /\ InPushLayer =>
              /\ layerFilenames[layerIdx] # "repositories"
              /\ layerFilePath = LayerFilePath(tempDirPath, layerFilenames[layerIdx])
              /\ Len(layerDigests) = Len(LayerNamesUpTo(layerIdx)) - 1
        /\ (pc \in {"PushImage_NextLayer", "PushManifest"} \/ (pc = "done" /\ result.err = Nil))
              => Len(layerDigests) = Len(LayerNamesUpTo(layerIdx))
        /\ (pc = "done" /\ result.err = Nil) => layerIdx = Len(layerFilenames)
        /\ (pc = "done" /\ \E n \in ArchiveDirs(imageFile.entries) :
                              ~HasEntry(imageFile.entries, <<n, "/layer.tar">>))
              => /\ result.err # Nil
                 /\ \A i \in DOMAIN reqLog : ~IsManifestPut(reqLog[i])
        /\ tempDirPath \in DOMAIN tempDirs =>
              \A f \in DOMAIN tempDirs[tempDirPath].files : IsExtractedEntry(f)

\* PushImage pushed the layer of one directory and then failed on a directory
\* of the archive that has no layer.tar entry, without a request for it.
C29_Witness ==
    /\ op = "PushImage" /\ pc = "done"
    /\ Len(layerDigests) = 1
    /\ layerFilenames[layerIdx] \in ArchiveDirs(imageFile.entries)
    /\ ~HasEntry(imageFile.entries, <<layerFilenames[layerIdx], "/layer.tar">>)
    /\ result.err = IOError(<<"open ", layerFilenames[layerIdx], "/layer.tar">>)
    /\ \A i \in DOMAIN reqLog : ~IsManifestPut(reqLog[i])

\* A decoded index of the expected form: one repository, one tag, and a
\* string as the image id.
WellFormedIndex(obj) ==
    /\ OneRepoOneTag(obj)
    /\ \A k \in DOMAIN obj.m : \A t \in DOMAIN obj.m[k].m : obj.m[k].m[t].t = "string"

\* The errors PushImage returns for a repositories index it rejects.
IndexRejections ==
    {ConstructServerError(<<msg>>) : msg \in
        {"repositories file json does not translate to a map[string]interface",
         "No entries found in repository map for image",
         "More than one entry found in repository map for image",
         "repository json does not translate to a map[string]interface",
         "No entries found in tag map for repo",
         "More than one entry found in tag map for repo",
         "Digest is not a string"}}

\* C30: when PushImage rejects an archive because of its repositories index
\* (not a map, wrong cardinality, an image id that is not a string), it has
\* issued no registry request; every archive with such an index is rejected.
C30_IndexRejectedBeforeAnyRequest ==
    op = "PushImage" =>
        LET docs == ArchiveIndexDocs(imageFile.entries)
        IN  /\ (pc = "done" /\ result.err \in IndexRejections) => reqLog = <<>>
            /\ (/\ Len(docs) = 1
                /\ JsonUnmarshal(docs[1]).ok
                /\ ~WellFormedIndex(JsonUnmarshal(docs[1]).obj))
               => /\ reqLog = <<>>
                  /\ pc = "done" => result.err \in IndexRejections \cup {IOError(<<"mkdir temp">>)}

\* PushImage has unpacked two layers and rejected the archive for an image id
\* that is a number.
C30_Witness ==
    /\ op = "PushImage" /\ pc = "done"
    /\ ArchiveIndexDocs(imageFile.entries) = <<IndexIdNotString>>
    /\ result.err = ConstructServerError(<<"Digest is not a string">>)
    /\ tempDirPath \in DOMAIN tempDirs
    /\ <<"a", "/layer.tar">> \in DOMAIN tempDirs[tempDirPath].files
    /\ reqLog = <<>>

\* The repository names and tags the index documents of the corpus record.
IndexNames == {"realm4/repo1", "myimage2", "r1", "r2", "t", "t1", "t2"}

\* C31: PushImage pushes every layer and publishes the manifest under the
\* repository name and tag its caller supplied; the names recorded in the
\* archive's repositories index appear in no request URL and not in the
\* manifest's name and tag fields.
C31_CallerNamesOnly ==
    op = "PushImage" =>
        \A i \in DOMAIN reqLog :
            /\ \A k \in DOMAIN reqLog[i].url : reqLog[i].url[k] \notin IndexNames
            /\ Contains(reqLog[i].url, repoName)
            /\ IsManifestPut(reqLog[i]) =>
                  /\ reqLog[i].url[Len(reqLog[i].url)] = tag
                  /\ reqLog[i].body[2] = repoName
                  /\ reqLog[i].body[4] = tag
                  /\ \A k \in DOMAIN reqLog[i].body : reqLog[i].body[k] \notin IndexNames

\* PushImage has published the manifest of an archive whose index records
\* another repository and tag than the caller's.
C31_Witness ==
    /\ op = "PushImage" /\ pc = "done" /\ result.err = Nil
    /\ ArchiveIndexDocs(imageFile.entries) = <<IndexOk>>
    /\ repoName # "realm4/repo1" /\ tag # "myimage2"
    /\ Len(reqLog) > 1
    /\ IsManifestPut(reqLog[Len(reqLog)])
    /\ reqLog[Len(reqLog)].body[2] = repoName

\* ------------------------------------------------------------------ build output
\* DockerServices.ParseBuildCommandOutput reads the text a docker build wrote.
\* A text is a sequence of tokens; the token "\n" ends a line.

\* The longest build output examined, in lines.
MaxLines == 3

\* The variables of the registry client, which no parse touches.
clientVars == <<pullVars, registryVars, fsVars, repoName, tag, imageFile, imageVars,
                layerVars, reqLog, stdout>>

StepLine1 == <<"Step ", "1", " : ", "RUN a">>
StepLine2 == <<"Step ", "2", " : ", "RUN b">>
StepLineNoSeparator == <<"Step ", "3">>
PartUsingCache == <<" ---> ", "Using cache">>
PartImageId == <<" ---> ", "0b8d">>
PartRunningIn == <<" ---> ", "Running in 3bac">>
PartEmpty == <<" ---> ">>
SuccessLine == <<"Successfully built ", "6a95">>
ErrorLine == <<"Error", ": boom">>
EmptyLine == <<>>

BuildLines == {StepLine1, StepLine2, StepLineNoSeparator, PartUsingCache, PartImageId,
               PartRunningIn, PartEmpty, SuccessLine, ErrorLine, EmptyLine}

\* The tokens whose text holds a space character.
SpaceTokens == {" ", "Step ", " : ", "RUN a", "RUN b", " ---> ", "Using cache",
                "Running in 3bac", "Successfully built ", ": boom"}

RECURSIVE JoinLines(_)
JoinLines(ls) ==
    IF Len(ls) = 1 THEN ls[1] ELSE ls[1] \o <<"\n">> \o JoinLines(Tail(ls))

BuildOutputs == {JoinLines(ls) : ls \in UNION {[1..n -> BuildLines] : n \in 1..MaxLines}}

\* strings.Split(s, "\n"): the pieces between the line ends, at least one.
RECURSIVE Split(_)
Split(s) ==
    IF \E i \in 1..Len(s) : s[i] = "\n"
    THEN LET i == CHOOSE k \in 1..Len(s) : s[k] = "\n" /\ \A j \in 1..(k - 1) : s[j] # "\n"
         IN <<SubSeq(s, 1, i - 1)>> \o Split(SubSeq(s, i + 1, Len(s)))
    ELSE <<s>>

\* strings.HasPrefix(s, prefix), the prefix being one token.
HasPrefix(s, prefix) == Len(s) >= 1 /\ s[1] = prefix

\* strings.TrimPrefix(s, prefix).
TrimPrefix(s, prefix) == IF HasPrefix(s, prefix) THEN Tail(s) ELSE s

\* strings.Index(s, sep), counted in tokens from 0; -1 when sep is not in s.
Index(s, sep) ==
    IF \E i \in 1..Len(s) : s[i] = sep
    THEN (CHOOSE k \in 1..Len(s) : s[k] = sep /\ \A j \in 1..(k - 1) : s[j] # sep) - 1
    ELSE -1

\* strings.Contains(s, substr): substr occurs in s as a run of tokens.
StringsContains(s, substr) ==
    \E i \in 1..(Len(s) + 1) :
        /\ i + Len(substr) - 1 <= Len(s)
        /\ SubSeq(s, i, i + Len(substr) - 1) = substr

\* fmt.Sscanf(s, "%d", &stepNo): the number s starts with, 0 when it starts with none.
Sscanf(s) ==
    IF s = <<>> THEN 0
    ELSE CASE s[1] = "1" -> 1
           [] s[1] = "2" -> 2
           [] s[1] = "3" -> 3
           [] OTHER -> 0

NewDockerBuildStep(number, cmd) ==
    [StepNumber |-> number, Command |-> cmd, UsedCache |-> FALSE,
     ProducedDockerImageId |-> <<>>]

NewDockerBuildOutput ==
    [isNil |-> FALSE, ErrorMessage |-> <<>>, FinalDockerImageId |-> <<>>, Steps |-> <<>>]

\* DockerBuildOutput.AddStep: the step is appended.
AddStep(out, number, cmd) ==
    [out EXCEPT !.Steps = Append(@, NewDockerBuildStep(number, cmd))]

SetFinalImageId(out, id) == [out EXCEPT !.FinalDockerImageId = id]

\* DockerBuildStep.SetUsedCache, on the step that *step points to.
SetUsedCache(out, sp) == [out EXCEPT !.Steps[sp].UsedCache = TRUE]

\* DockerBuildStep.SetProducedImageId, on the step that *step points to.
SetProducedImageId(out, sp, id) == [out EXCEPT !.Steps[sp].ProducedDockerImageId = id]

SetErrorMessage(out, msg) == [out EXCEPT !.ErrorMessage = msg]

\* What one pass of the loop leaves: the locals, and the error once it returned.
Continues(st, sp, ln, out) ==
    [state |-> st, step |-> sp, lineNo |-> ln, output |-> out, returned |-> FALSE,
     err |-> Nil]

\* A return that hands back no output with an error.
Returned_NilOnError(st, sp, ln, out, err) ==
    [state |-> st, step |-> sp, lineNo |-> ln,
     output |-> IF err = Nil THEN out ELSE NilOutput, returned |-> TRUE, err |-> err]

Returned(st, sp, ln, out, err) ==
    [state |-> st, step |-> sp, lineNo |-> ln, output |-> out, returned |-> TRUE,
     err |-> err]

\* case 1 of the switch: looking for the next step.
LookForStep(line, sp, ln, out) ==
    IF Len(TrimPrefix(line, "Step ")) < Len(line)
    THEN LET therest == TrimPrefix(line, "Step ")
             stepNo == Sscanf(therest)
             seppos == Index(therest, " : ")
             cmd == SubSeq(therest, seppos + 2, Len(therest))
             out2 == IF seppos # -1 THEN AddStep(out, stepNo, cmd) ELSE out
             sp2 == IF seppos # -1 THEN Len(out2.Steps) ELSE sp
         IN Continues(2, sp2, ln + 1, out2)
    ELSE IF Len(TrimPrefix(line, "Successfully built ")) < Len(line)
    THEN Returned(1, sp, ln, SetFinalImageId(out, TrimPrefix(line, "Successfully built ")),
                  Nil)
    ELSE IF Len(TrimPrefix(line, "Error")) < Len(line)
    THEN Returned(1, sp, ln, SetErrorMessage(out, TrimPrefix(line, "Error")),
                  ConstructServerError(TrimPrefix(line, "Error")))
    ELSE Continues(1, sp, ln + 1, out)

\* A step part the parse records, or skips.
RecordPart(therest, sp, out) ==
    IF HasPrefix(therest, "Using cache") THEN SetUsedCache(out, sp)
    ELSE IF StringsContains(<<" ">>, therest) THEN out
    ELSE SetProducedImageId(out, sp, therest)

\* A case 2 that stays in state 2 on a line that is no step part.
LookForStepParts_StaysInState2(line, sp, ln, out) ==
    IF sp = 0
    THEN Returned(2, sp, ln, SetErrorMessage(out, <<"Internal error: should not happen">>),
                  ConstructServerError(<<"Internal error: should not happen">>))
    ELSE IF Len(TrimPrefix(line, " ---> ")) < Len(line)
    THEN Continues(2, sp, ln + 1, RecordPart(TrimPrefix(line, " ---> "), sp, out))
    ELSE Continues(2, sp, ln, out)

\* case 2 of the switch: looking for the parts of the step.
LookForStepParts(line, sp, ln, out) ==
    IF sp = 0
    THEN Returned(2, sp, ln, SetErrorMessage(out, <<"Internal error: should not happen">>),
                  ConstructServerError(<<"Internal error: should not happen">>))
    ELSE IF Len(TrimPrefix(line, " ---> ")) < Len(line)
    THEN Continues(2, sp, ln + 1, RecordPart(TrimPrefix(line, " ---> "), sp, out))
    ELSE Continues(1, sp, ln, out)

\* One pass of the loop of ParseBuildCommandOutput.
Iteration(ls, st, sp, ln, out) ==
    IF ln >= Len(ls)
    THEN Returned(st, sp, ln, out, ConstructServerError(<<"Incomplete">>))
    ELSE CASE st = 1 -> LookForStep(ls[ln + 1], sp, ln, out)
           [] st = 2 -> LookForStepParts(ls[ln + 1], sp, ln, out)
           [] OTHER ->
                Returned(st, sp, ln,
                         SetErrorMessage(out, <<"Internal error: Unrecognized state">>),
                         ConstructServerError(<<"Internal error: Unrecognized state">>))

\* ParseBuildCommandOutput is called: the locals before the loop.
EnterParse(s) ==
    /\ lines' = Split(s)
    /\ state' = 1
    /\ step' = 0
    /\ lineNo' = 0
    /\ output' = NewDockerBuildOutput
    /\ pc' = "parse"

Call_ParseBuildCommandOutput ==
    /\ pc = "idle"
    /\ op' = "ParseBuildCommandOutput"
    /\ EnterParse(buildOutputStr)
    /\ UNCHANGED <<clientVars, part, buildVars, buildOutputStr, restResponse, result>>

\* One pass of the loop runs; the call returns when the pass says so.
ParseIteration ==
    /\ pc = "parse"
    /\ LET next == Iteration(lines, state, step, lineNo, output)
       IN /\ state' = next.state
          /\ step' = next.step
          /\ lineNo' = next.lineNo
          /\ output' = next.output
          /\ IF next.returned
             THEN Returns(<<>>, FALSE, next.err)
             ELSE UNCHANGED <<pc, result>>
    /\ UNCHANGED <<clientVars, part, buildVars, buildOutputStr, restResponse, lines, op>>

\* A parse of one build output, taken from the outputs above.
ParseBuildInit ==
    /\ InitRegistry
    /\ InitName
    /\ InitBuild
    /\ buildOutputStr \in BuildOutputs
    /\ restResponse = <<>>
    /\ lines = <<>>
    /\ state = 1
    /\ step = 0
    /\ lineNo = 0
    /\ output = NilOutput

ParseBuildNext ==
    \/ Call_ParseBuildCommandOutput
    \/ ParseIteration

\* The loop is sequential code: a pass that can run does run.
ParseBuild == ParseBuildInit /\ [][ParseBuildNext]_vars /\ WF_vars(ParseBuildNext)

\* C32: ParseBuildCommandOutput terminates on every input.  Each pass of the
\* loop moves to the next line, returns, or goes from state 2 to state 1; a
\* pass in state 1 always moves to the next line or returns; and every parse
\* ends.
C32_ParseTerminates ==
    /\ [][pc = "parse" =>
            \/ lineNo' > lineNo
            \/ pc' = "done"
            \/ state = 2 /\ state' = 1 /\ lineNo' = lineNo]_vars
    /\ [][pc = "parse" /\ state = 1 => lineNo' > lineNo \/ pc' = "done"]_vars
    /\ <>(pc = "done")

\* A parse ended well after two steps: it went from state 2 to state 1 twice.
C32_Witness ==
    /\ pc = "done"
    /\ op = "ParseBuildCommandOutput"
    /\ result.err = Nil
    /\ Len(output.Steps) = 2

IsSuccessLine(line) == HasPrefix(line, "Successfully built ")

IsErrorLine(line) == HasPrefix(line, "Error")

\* The first line that says how the build ended says it succeeded.
SuccessBeforeError(ls) ==
    \E k \in 1..Len(ls) :
        /\ IsSuccessLine(ls[k])
        /\ \A j \in 1..(k - 1) : ~IsSuccessLine(ls[j]) /\ ~IsErrorLine(ls[j])

FirstSuccessLine(ls) == ls[CHOOSE k \in 1..Len(ls) :
                             IsSuccessLine(ls[k]) /\ \A j \in 1..(k - 1) : ~IsSuccessLine(ls[j])]

\* C33: ParseBuildCommandOutput returns a nil error exactly when the output
\* has a line starting with "Successfully built " before it ends and before
\* any line starting with "Error"; FinalDockerImageId is then the rest of
\* that line.
C33_NilIffSuccessLineFirst ==
    (op = "ParseBuildCommandOutput" /\ pc = "done")
    => /\ result.err = Nil <=> SuccessBeforeError(lines)
       /\ result.err = Nil
          => output.FinalDockerImageId = Tail(FirstSuccessLine(lines))

IsStepLine(line) == HasPrefix(line, "Step ")

IsPartLine(line) == HasPrefix(line, " ---> ")

\* The number of "Step " lines among the lines the parse has passed.
StepLinesConsumed == Cardinality({i \in 1..lineNo : IsStepLine(lines[i])})

\* C34: in ParseBuildCommandOutput the result has one step for each "Step "
\* line consumed, with or without " : "; no parse ends with the internal
\* error of a missing step; and a " ---> " line changes no step but the one
\* of the most recent "Step " line.
C34_PartsOnMostRecentStep ==
    /\ [](op = "ParseBuildCommandOutput"
          => /\ Len(output.Steps) = StepLinesConsumed
             /\ result.err.msg # <<"Internal error: should not happen">>)
    /\ [][(pc = "parse" /\ state = 2 /\ lineNo < Len(lines)
           /\ IsPartLine(lines[lineNo + 1]))
          => \A i \in 1..Len(output.Steps) :
                i # StepLinesConsumed => output'.Steps[i] = output.Steps[i]]_vars

\* The text holds a space character.
HasSpace(s) == \E i \in 1..Len(s) : s[i] \in SpaceTokens

\* C35: in ParseBuildCommandOutput a " ---> " line whose rest starts with
\* "Using cache" sets UsedCache of the step and stores nothing; a rest that
\* holds a space leaves the step as it was; a rest with no space becomes the
\* step's produced image id.
C35_OnlyRecognizedPartsRecorded ==
    [][(pc = "parse" /\ state = 2 /\ step # 0 /\ lineNo < Len(lines)
        /\ IsPartLine(lines[lineNo + 1]))
       => LET therest == Tail(lines[lineNo + 1])
          IN IF HasPrefix(therest, "Using cache")
             THEN output' = [output EXCEPT !.Steps[step].UsedCache = TRUE]
             ELSE IF HasSpace(therest)
             THEN output' = output
             ELSE output' = [output EXCEPT !.Steps[step].ProducedDockerImageId = therest]]_vars

\* The step a "Step " line with " : " describes: its number and its command.
StepOfLine(line) ==
    LET k == CHOOSE i \in 2..Len(line) : line[i] = " : " /\ \A j \in 2..(i - 1) : line[j] # " : "
    IN [StepNumber |-> Sscanf(Tail(line)), Command |-> SubSeq(line, k + 1, Len(line))]

\* The steps of the "Step " lines with " : " among the first n lines, in order.
RECURSIVE StepsOfLines(_, _)
StepsOfLines(ls, n) ==
    IF n = 0 THEN <<>>
    ELSE IF IsStepLine(ls[n]) /\ \E i \in 2..Len(ls[n]) : ls[n][i] = " : "
    THEN Append(StepsOfLines(ls, n - 1), StepOfLine(ls[n]))
    ELSE StepsOfLines(ls, n - 1)

\* C36: when ParseBuildCommandOutput returns an error, the output it returns
\* is not nil and holds, in the order of the lines, the step of every "Step "
\* line consumed before the failure.
C36_PartialOutputOnError ==
    (op = "ParseBuildCommandOutput" /\ pc = "done" /\ result.err # Nil)
    => /\ ~output.isNil
       /\ [i \in 1..Len(output.Steps) |->
             [StepNumber |-> output.Steps[i].StepNumber,
              Command |-> output.Steps[i].Command]]
          = StepsOfLines(lines, lineNo)

\* An "Error" line ended a parse that had added two steps.
C36_Witness ==
    /\ op = "ParseBuildCommandOutput"
    /\ pc = "done"
    /\ result.err = ConstructServerError(<<": boom">>)
    /\ Len(output.Steps) = 2

\* ------------------------------------------------------------------ REST build output
\* DockerServices.ParseBuildRESTOutput reads the response of the engine's
\* build function: one JSON document per line.

\* The longest response examined, in lines.
MaxMessages == 3

ConstructUserError(msg) == [kind |-> "user", status |-> 0, msg |-> msg]

MsgStep == "{\"stream\":\"Step 1 : RUN a\\n\"}"
MsgPart == "{\"stream\":\" ---\\u003e 0b8d\\n\"}"
MsgSuccess == "{\"stream\":\"Successfully built 6a95\\n\"}"
MsgStatus == "{\"status\":\"Pulling from library/alpine\",\"id\":\"latest\"}"
MsgError == "{\"error\":\"boom\",\"errorDetail\":{\"code\":123,\"message\":\"no space\"}}"
MsgNotJson == "{\"stream\":"
MsgNotMap == "[]"
MsgStreamNotString == "{\"stream\":5}"
MsgUnknownField == "{\"id\":\"latest\"}"
MsgErrorNotString == "{\"error\":5}"
MsgErrorNoDetail == "{\"error\":\"boom\"}"
MsgDetailNotMap == "{\"error\":\"boom\",\"errorDetail\":\"no space\"}"
MsgDetailNoMessage == "{\"error\":\"boom\",\"errorDetail\":{\"code\":123}}"

BuildMessages == {MsgStep, MsgPart, MsgSuccess, MsgStatus, MsgError, MsgNotJson, MsgNotMap,
                  MsgStreamNotString, MsgUnknownField, MsgErrorNotString, MsgErrorNoDetail,
                  MsgDetailNotMap, MsgDetailNoMessage}

RestResponses == UNION {[1..n -> BuildMessages] : n \in 0..MaxMessages}

\* A decoded JSON string whose text is a token sequence.
JText(v) == [t |-> "string", s |-> "", m |-> <<>>, text |-> v]

\* json.Unmarshal(lineBytes, &obj) on the messages above.
UnmarshalMessage(lineBytes) ==
    CASE lineBytes = MsgStep ->
            [ok |-> TRUE, obj |-> JMap("stream" :> JText(StepLine1 \o <<"\n">>))]
      [] lineBytes = MsgPart ->
            [ok |-> TRUE, obj |-> JMap("stream" :> JText(PartImageId \o <<"\n">>))]
      [] lineBytes = MsgSuccess ->
            [ok |-> TRUE, obj |-> JMap("stream" :> JText(SuccessLine \o <<"\n">>))]
      [] lineBytes = MsgStatus ->
            [ok |-> TRUE, obj |-> JMap(("status" :> JText(<<"Pulling from library/alpine">>))
                                       @@ ("id" :> JText(<<"latest">>)))]
      [] lineBytes = MsgError ->
            [ok |-> TRUE,
             obj |-> JMap(("error" :> JText(<<"boom">>))
                          @@ ("errorDetail" :> JMap(("code" :> JOther("number"))
                                                    @@ ("message" :> JText(<<"no space">>)))))]
      [] lineBytes = MsgNotMap -> [ok |-> TRUE, obj |-> JOther("array")]
      [] lineBytes = MsgStreamNotString ->
            [ok |-> TRUE, obj |-> JMap("stream" :> JOther("number"))]
      [] lineBytes = MsgUnknownField ->
            [ok |-> TRUE, obj |-> JMap("id" :> JText(<<"latest">>))]
      [] lineBytes = MsgErrorNotString ->
            [ok |-> TRUE, obj |-> JMap("error" :> JOther("number"))]
      [] lineBytes = MsgErrorNoDetail ->
            [ok |-> TRUE, obj |-> JMap("error" :> JText(<<"boom">>))]
      [] lineBytes = MsgDetailNotMap ->
            [ok |-> TRUE, obj |-> JMap(("error" :> JText(<<"boom">>))
                                       @@ ("errorDetail" :> JText(<<"no space">>)))]
      [] lineBytes = MsgDetailNoMessage ->
            [ok |-> TRUE,
             obj |-> JMap(("error" :> JText(<<"boom">>))
                          @@ ("errorDetail" :> JMap("code" :> JOther("number"))))]
      [] OTHER -> [ok |-> FALSE, obj |-> JOther("nil")]

\* msgMap[key]: nil when the map has no such key.
MapValue(msgMap, key) == IF key \in DOMAIN msgMap THEN msgMap[key] ELSE JOther("nil")

\* obj.(string): the text, "" when obj is no string.
AsString(obj) == IF obj.t = "string" THEN obj.text ELSE <<>>

\* The branch of extractBuildOutputFromRESTResponse for a message with
\* neither "stream" nor "status": the error it returns.
ErrorOfMessage(msgMap, lineBytes) ==
    LET error == MapValue(msgMap, "error")
        errorDetail == MapValue(msgMap, "errorDetail")
    IN IF error.t = "nil"
       THEN ConstructServerError(<<"Unexpected field: ", lineBytes>>)
       ELSE IF error.t # "string"
       THEN ConstructServerError(<<"Unexpected data in json error value; line: ", lineBytes>>)
       ELSE IF errorDetail.t = "nil"
       THEN ConstructServerError(<<"Unexpected JSON field in errorDetail message: ", lineBytes>>)
       ELSE IF errorDetail.t # "map"
       THEN ConstructServerError(<<"Unexpected data in json errorDetail value; line: ",
                                   lineBytes>>)
       ELSE IF MapValue(errorDetail.m, "message").t = "nil"
       THEN ConstructServerError(<<"No message field in errorDetail message: ", lineBytes>>)
       ELSE ConstructUserError(AsString(error) \o <<"; ">>
                               \o AsString(MapValue(errorDetail.m, "message")))

\* The loop of extractBuildOutputFromRESTResponse from line i on, with the
\* text gathered so far.
RECURSIVE ExtractFrom(_, _, _)
ExtractFrom(response, i, out) ==
    IF i > Len(response) THEN [output |-> out, err |-> Nil]
    ELSE LET lineBytes == response[i]
             parsed == UnmarshalMessage(lineBytes)
             msgMap == parsed.obj.m
             stream == MapValue(msgMap, "stream")
             status == MapValue(msgMap, "status")
             obj == IF stream.t # "nil" THEN stream ELSE status
         IN IF ~parsed.ok THEN [output |-> <<>>, err |-> IOError(<<"invalid json">>)]
            ELSE IF parsed.obj.t # "map"
            THEN [output |-> <<>>,
                  err |-> ConstructServerError(<<"Unexpected format for json build output: ",
                                                 lineBytes>>)]
            ELSE IF obj.t = "nil"
            THEN [output |-> <<>>, err |-> ErrorOfMessage(msgMap, lineBytes)]
            ELSE IF obj.t # "string"
            THEN [output |-> <<>>,
                  err |-> ConstructServerError(<<"Unexpected type in json field value: ",
                                                 obj.t>>)]
            ELSE ExtractFrom(response, i + 1, out \o AsString(obj))

extractBuildOutputFromRESTResponse(response) == ExtractFrom(response, 1, <<>>)

\* ParseBuildRESTOutput: nil and the error when the response cannot be taken
\* apart, else the parse of the text it holds.
Call_ParseBuildRESTOutput ==
    /\ pc = "idle"
    /\ op' = "ParseBuildRESTOutput"
    /\ LET extracted == extractBuildOutputFromRESTResponse(restResponse)
       IN IF extracted.err # Nil
          THEN /\ pc' = "done"
               /\ result' = [op |-> "ParseBuildRESTOutput", value |-> <<>>, found |-> FALSE,
                             err |-> extracted.err]
               /\ output' = NilOutput
               /\ UNCHANGED <<buildOutputStr, lines, state, step, lineNo>>
          ELSE /\ buildOutputStr' = extracted.output
               /\ EnterParse(extracted.output)
               /\ UNCHANGED result
    /\ UNCHANGED <<clientVars, part, buildVars, restResponse>>

\* A parse of one response, taken from the responses above.
ParseRestInit ==
    /\ InitRegistry
    /\ InitName
    /\ InitBuild
    /\ restResponse \in RestResponses
    /\ buildOutputStr = <<>>
    /\ lines = <<>>
    /\ state = 1
    /\ step = 0
    /\ lineNo = 0
    /\ output = NilOutput

ParseRestNext ==
    \/ Call_ParseBuildRESTOutput
    \/ ParseIteration

\* The function is sequential code: a step that can run does run.
ParseRest == ParseRestInit /\ [][ParseRestNext]_vars /\ WF_vars(ParseRestNext)

\* C37: when ParseBuildRESTOutput returns an error it also returns a
\* DockerBuildOutput that is not nil, also when the error is the error
\* object of the engine's response.
C37_RestPartialOutputOnError ==
    (op = "ParseBuildRESTOutput" /\ pc = "done" /\ result.err # Nil) => ~output.isNil

\* ------------------------------------------------------------------ DockerServices
\* BuildDockerfile, SaveImage and RemoveDockerImage work through the DockerEngine and
\* DockerRegistry interfaces; what the engine, the registry and the file
\* system answer is open.  repoName and tag hold the image name and the tag
\* the running call was given.

\* The tags a build is asked for: a tag, and none.
BuildTags == {"v1", ""}

EngineFailure == [kind |-> "server", status |-> 0, msg |-> <<"engine failed">>]

RegistryFailure == [kind |-> "server", status |-> 0, msg |-> <<"registry failed">>]

\* What a build writes, as Engine.BuildImage returns it.
BuildImageOutput == SuccessLine

\* One call on a collaborator: who was called, the method, the arguments,
\* the error returned, and the other value returned where there is one.
Invocation(on, method, args, err, exists, out) ==
    [on |-> on, method |-> method, args |-> args, err |-> err, exists |-> exists,
     out |-> out]

Invoked(on, method) == \E i \in 1..Len(calls) : calls[i].on = on /\ calls[i].method = method

\* outputStr: what Engine.BuildImage returned, "" before it was called.
OutputStr ==
    IF Invoked("Engine", "BuildImage")
    THEN calls[CHOOSE i \in 1..Len(calls) : calls[i].method = "BuildImage"].out
    ELSE <<>>

\* A defer that removes nothing.
Defer_Nothing(pending, dir) == pending

\* defer os.RemoveAll(dir): deferred calls run last registered first.
Defer(pending, dir) == <<dir>> \o pending

\* BuildDockerfile returns: the deferred calls remove their directories.
BuildReturns(value, err) ==
    /\ buildDirs' = buildDirs \ {deferred[i] : i \in 1..Len(deferred)}
    /\ deferred' = <<>>
    /\ pc' = "done"
    /\ result' = [op |-> op, value |-> value, found |-> FALSE, err |-> err]

\* A test that takes no registry's word for an image.
Exists_WithoutRegistryOnly(hasRegistry, answer) == ~hasRegistry /\ answer.err = Nil

\* exists: without a registry the engine knows the image; with one, the
\* registry says so.
Exists(hasRegistry, answer) ==
    IF ~hasRegistry THEN answer.err = Nil ELSE answer.exists

\* What the existence check can be answered.
ExistenceAnswers(hasRegistry) ==
    IF ~hasRegistry
    THEN {[exists |-> FALSE, err |-> Nil], [exists |-> FALSE, err |-> EngineFailure]}
    ELSE {[exists |-> TRUE, err |-> Nil], [exists |-> FALSE, err |-> Nil],
          [exists |-> FALSE, err |-> RegistryFailure]}

\* fullName of the check without a registry, and imageFullName.
FullName(name, t) == IF t # "" THEN <<name, ":", t>> ELSE <<name>>

ImageFullName(name, t) == <<name, ":", t>>

srvUnchanged == <<pullVars, registryVars, fsVars, imageFile, imageVars, layerVars, reqLog,
                  stdout, part, parseVars, registrySet, savedFiles>>

Call_BuildDockerfile ==
    /\ pc = "idle"
    /\ \E name \in RepoNames, t \in BuildTags :
          /\ repoName' = name
          /\ tag' = t
    /\ op' = "BuildDockerfile"
    /\ pc' = "build_check"
    /\ calls' = <<>>
    /\ UNCHANGED <<srvUnchanged, buildDirs, deferred, result>>

\* The existence check, and the return when the image exists.
Build_CheckExists ==
    /\ pc = "build_check"
    /\ \E answer \in ExistenceAnswers(registrySet) :
          /\ calls' = Append(calls,
                IF registrySet
                THEN Invocation("Registry", "ImageExists", <<repoName, tag>>, answer.err,
                                answer.exists, <<>>)
                ELSE Invocation("Engine", "GetImageInfo", FullName(repoName, tag),
                                answer.err, FALSE, <<>>))
          /\ IF Exists(registrySet, answer)
             THEN BuildReturns(<<>>, ConstructUserError(
                      <<"Image with name ", repoName, ":", tag, " already exists.">>))
             ELSE /\ pc' = "build_mkdir"
                  /\ UNCHANGED <<buildDirs, deferred, result>>
    /\ UNCHANGED <<srvUnchanged, repoName, tag, op>>

\* utilities.MakeTempDir for the build context, and the defer that removes it.
Build_MakeTempDir ==
    /\ pc = "build_mkdir"
    /\ \E err \in {Nil, IOError(<<"mkdir">>)} :
          /\ calls' = Append(calls, Invocation("utilities", "MakeTempDir", <<"tempDirPath">>,
                                               err, FALSE, <<>>))
          /\ IF err # Nil
             THEN BuildReturns(<<>>, err)
             ELSE /\ buildDirs' = buildDirs \cup {"tempDirPath"}
                  /\ deferred' = Defer(deferred, "tempDirPath")
                  /\ pc' = "build_copy"
                  /\ UNCHANGED result
    /\ UNCHANGED <<srvUnchanged, repoName, tag, op>>

\* The dockerfile is copied into the build context: os.Open, os.Create,
\* io.Copy, out.Close.
Build_CopyDockerfile ==
    /\ pc = "build_copy"
    /\ \E failure \in {"none", "open", "create", "copy", "close"} :
          IF failure # "none"
          THEN BuildReturns(<<>>, IOError(<<failure>>))
          ELSE /\ pc' = "build_image"
               /\ UNCHANGED <<buildDirs, deferred, result>>
    /\ UNCHANGED <<srvUnchanged, repoName, tag, op, calls>>

\* Engine.BuildImage; without a registry the call ends here.
Build_BuildImage ==
    /\ pc = "build_image"
    /\ \E answer \in {[out |-> BuildImageOutput, err |-> Nil],
                      [out |-> <<>>, err |-> EngineFailure],
                      [out |-> ErrorLine, err |-> EngineFailure]} :
          /\ calls' = Append(calls, Invocation("Engine", "BuildImage",
                                               ImageFullName(repoName, tag), answer.err,
                                               FALSE, answer.out))
          /\ IF answer.err # Nil
             THEN BuildReturns(answer.out, answer.err)
             ELSE IF registrySet
             THEN /\ pc' = "build_mkdir2"
                  /\ UNCHANGED <<buildDirs, deferred, result>>
             ELSE BuildReturns(answer.out, Nil)
    /\ UNCHANGED <<srvUnchanged, repoName, tag, op>>

\* utilities.MakeTempDir for the image file, and the defer that removes it.
Build_MakeTempDir2 ==
    /\ pc = "build_mkdir2"
    /\ \E err \in {Nil, IOError(<<"mkdir">>)} :
          /\ calls' = Append(calls, Invocation("utilities", "MakeTempDir", <<"tempDirPath2">>,
                                               err, FALSE, <<>>))
          /\ IF err # Nil
             THEN BuildReturns(OutputStr, err)
             ELSE /\ buildDirs' = buildDirs \cup {"tempDirPath2"}
                  /\ deferred' = Defer(deferred, "tempDirPath2")
                  /\ pc' = "build_export"
                  /\ UNCHANGED result
    /\ UNCHANGED <<srvUnchanged, repoName, tag, op>>

\* utilities.MakeTempFile and Engine.GetImage: the image as a file.
Build_ExportImage ==
    /\ pc = "build_export"
    /\ \/ /\ BuildReturns(OutputStr, IOError(<<"create ">>))
          /\ UNCHANGED calls
       \/ \E err \in {Nil, EngineFailure} :
             /\ calls' = Append(calls, Invocation("Engine", "GetImage",
                                                  ImageFullName(repoName, tag), err, FALSE,
                                                  <<>>))
             /\ IF err # Nil
                THEN BuildReturns(OutputStr, err)
                ELSE /\ pc' = "build_digest"
                     /\ UNCHANGED <<buildDirs, deferred, result>>
    /\ UNCHANGED <<srvUnchanged, repoName, tag, op>>

\* Engine.GetImageInfo and the checks of info["Id"].
Build_GetDigest ==
    /\ pc = "build_digest"
    /\ \E answer \in {[id |-> "sha256:d2cf21", err |-> Nil], [id |-> "nil", err |-> Nil],
                      [id |-> "number", err |-> Nil], [id |-> "", err |-> Nil],
                      [id |-> "nil", err |-> EngineFailure]} :
          /\ calls' = Append(calls, Invocation("Engine", "GetImageInfo",
                                               ImageFullName(repoName, tag), answer.err,
                                               FALSE, <<>>))
          /\ IF answer.err # Nil THEN BuildReturns(OutputStr, answer.err)
             ELSE IF answer.id = "nil"
             THEN BuildReturns(OutputStr, ConstructServerError(<<"Digest is nil">>))
             ELSE IF answer.id = "number"
             THEN BuildReturns(OutputStr, ConstructServerError(
                      <<"checksum is not a string: it is a ", "float64">>))
             ELSE IF answer.id = ""
             THEN BuildReturns(OutputStr, ConstructServerError(
                      <<"No checksum field found for image">>))
             ELSE /\ pc' = "build_push"
                  /\ UNCHANGED <<buildDirs, deferred, result>>
    /\ UNCHANGED <<srvUnchanged, repoName, tag, op>>

\* Registry.PushImage, and the return.
Build_PushImage ==
    /\ pc = "build_push"
    /\ \E err \in {Nil, RegistryFailure} :
          /\ calls' = Append(calls, Invocation("Registry", "PushImage", <<repoName, tag>>,
                                               err, FALSE, <<>>))
          /\ BuildReturns(OutputStr, err)
    /\ UNCHANGED <<srvUnchanged, repoName, tag, op>>

\* RemoveDockerImage is called.
Call_RemoveDockerImage ==
    /\ pc = "idle"
    /\ \E name \in RepoNames, t \in Tags :
          /\ repoName' = name
          /\ tag' = t
    /\ op' = "RemoveDockerImage"
    /\ pc' = "remove_engine"
    /\ calls' = <<>>
    /\ UNCHANGED <<srvUnchanged, buildDirs, deferred, result>>

\* Engine.DeleteImage; without a registry its answer is what the call returns.
Remove_EngineDelete ==
    /\ pc = "remove_engine"
    /\ \E err \in {Nil, EngineFailure} :
          /\ calls' = Append(calls, Invocation("Engine", "DeleteImage", <<repoName, tag>>,
                                               err, FALSE, <<>>))
          /\ IF registrySet
             THEN /\ pc' = "remove_registry"
                  /\ UNCHANGED result
             ELSE Returns(<<>>, FALSE, err)
    /\ UNCHANGED <<srvUnchanged, buildDirs, deferred, repoName, tag, op>>

\* Registry.DeleteImage: its answer is assigned to the same err, and that
\* is what the call returns.
Remove_RegistryDelete ==
    /\ pc = "remove_registry"
    /\ \E err \in {Nil, RegistryFailure} :
          /\ calls' = Append(calls, Invocation("Registry", "DeleteImage", <<repoName, tag>>,
                                               err, FALSE, <<>>))
          /\ Returns(<<>>, FALSE, err)
    /\ UNCHANGED <<srvUnchanged, buildDirs, deferred, repoName, tag, op>>

\* The most temporary files of SaveImage followed on disk.
MaxSavedFiles == 2

\* SaveImage is called.
Call_SaveImage ==
    /\ pc = "idle"
    /\ savedFiles < MaxSavedFiles
    /\ \E name \in RepoNames, t \in BuildTags :
          /\ repoName' = name
          /\ tag' = t
    /\ op' = "SaveImage"
    /\ pc' = "save_mkfile"
    /\ calls' = <<>>
    /\ UNCHANGED <<srvUnchanged, buildDirs, deferred, result>>

\* utilities.MakeTempFile("", ""): a file in the default temporary directory.
Save_MakeTempFile ==
    /\ pc = "save_mkfile"
    /\ \E err \in {Nil, IOError(<<"create ">>)} :
          /\ calls' = Append(calls, Invocation("utilities", "MakeTempFile", <<"", "">>, err,
                                               FALSE, <<>>))
          /\ IF err # Nil
             THEN /\ Returns(<<>>, FALSE, err)
                  /\ UNCHANGED savedFiles
             ELSE /\ savedFiles' = savedFiles + 1
                  /\ pc' = "save_get"
                  /\ UNCHANGED result
    /\ UNCHANGED <<pullVars, registryVars, fsVars, imageFile, imageVars, layerVars, reqLog,
                   stdout, part, parseVars, registrySet, buildDirs, deferred, repoName,
                   tag, op>>

\* Engine.GetImage without a registry, Registry.GetImage with one; the file
\* stays where it is, whatever the answer.
Save_GetImage ==
    /\ pc = "save_get"
    /\ \E err \in {Nil, IF registrySet THEN RegistryFailure ELSE EngineFailure} :
          /\ calls' = Append(calls,
                IF registrySet
                THEN Invocation("Registry", "GetImage", <<repoName, tag, "tempFilePath">>,
                                err, FALSE, <<>>)
                ELSE Invocation("Engine", "GetImage",
                                FullName(repoName, tag) \o <<"tempFilePath">>, err, FALSE,
                                <<>>))
          /\ Returns(IF err = Nil THEN <<"tempFilePath">> ELSE <<>>, FALSE, err)
    /\ UNCHANGED <<srvUnchanged, buildDirs, deferred, repoName, tag, op>>

\* The caller moves on.
Services_Return ==
    /\ pc = "done"
    /\ pc' = "idle"
    /\ op' = "none"
    /\ repoName' = ""
    /\ tag' = ""
    /\ calls' = <<>>
    /\ result' = NoResult
    /\ UNCHANGED <<srvUnchanged, buildDirs, deferred>>

\* NewDockerServices: with a registry, or with none.
ServicesInit ==
    /\ InitRegistry
    /\ InitName
    /\ InitParse
    /\ registrySet \in BOOLEAN
    /\ buildDirs = {}
    /\ deferred = <<>>
    /\ savedFiles = 0
    /\ calls = <<>>

ServicesNext ==
    \/ Call_BuildDockerfile
    \/ Build_CheckExists
    \/ Build_MakeTempDir
    \/ Build_CopyDockerfile
    \/ Build_BuildImage
    \/ Build_MakeTempDir2
    \/ Build_ExportImage
    \/ Build_GetDigest
    \/ Build_PushImage
    \/ Call_RemoveDockerImage
    \/ Remove_EngineDelete
    \/ Remove_RegistryDelete
    \/ Call_SaveImage
    \/ Save_MakeTempFile
    \/ Save_GetImage
    \/ Services_Return

Services == ServicesInit /\ [][ServicesNext]_vars

\* The existence check of the running build said the image exists.
ExistenceReported ==
    /\ op = "BuildDockerfile"
    /\ Len(calls) >= 1
    /\ IF registrySet THEN calls[1].exists ELSE calls[1].err = Nil

\* C38: when the existence check reports that the image exists,
\* BuildDockerfile returns a user error, having called neither
\* Engine.BuildImage nor Registry.PushImage and made no temporary directory.
C38_NoBuildWhenImageExists ==
    ExistenceReported
    => /\ pc = "done"
       /\ result.err.kind = "user"
       /\ ~Invoked("Engine", "BuildImage")
       /\ ~Invoked("Registry", "PushImage")
       /\ ~Invoked("utilities", "MakeTempDir")
       /\ buildDirs = {}

\* A registry said the image exists, and the build returned.
C38_Witness ==
    /\ ExistenceReported
    /\ registrySet
    /\ pc = "done"

\* C39: when BuildDockerfile has returned, with or without an error, no
\* temporary directory it created is left.
C39_TempDirsRemovedOnExit ==
    (op = "BuildDockerfile" /\ pc = "done") => buildDirs = {}

\* A build that made both directories returned an error.
C39_Witness ==
    /\ op = "BuildDockerfile"
    /\ pc = "done"
    /\ result.err # Nil
    /\ \E i, j \in 1..Len(calls) :
          /\ i # j
          /\ calls[i].method = "MakeTempDir" /\ calls[i].err = Nil
          /\ calls[j].method = "MakeTempDir" /\ calls[j].err = Nil

\* C40: RemoveDockerImage returns an error whenever Engine.DeleteImage
\* failed, with or without a registry, whatever Registry.DeleteImage
\* answered.
C40_EngineFailureReported ==
    (op = "RemoveDockerImage" /\ pc = "done" /\ calls[1].err # Nil) => result.err # Nil

====
